---------------------------- MODULE Spec2Model ----------------------------
(***************************************************************************)
(* Model of the resilience layer of halo-tool: the circuit breaker         *)
(* (src/resilience/CircuitBreaker.ts), the request deduplicator            *)
(* (resilience/RequestDeduplicator.ts), the retry manager                  *)
(* (src/resilience/RetryManager.ts) and the server tool executor that      *)
(* combines them (src/executors/ServerToolExecutor.ts).                    *)
(*                                                                         *)
(* Every subsystem has its own variables and its own specification; a      *)
(* specification leaves the variables of the other subsystems unchanged.   *)
(***************************************************************************)
EXTENDS Integers, Sequences, FiniteSets, TLC

VARIABLES
  now,          \* Date.now()
  circuits,     \* CircuitBreaker.circuits : Map<string, CircuitBreakerStats>
  call,         \* the CircuitBreaker.execute calls whose operation is running
  last,         \* the breaker operation that acted last and what it gave
  sinceSuccess, \* history: failures recorded for a key since its last success
  trialLeft     \* history: what is left of resetTimeoutMs since the last
                \* failure recorded in half-open

VARIABLES
  pendingRequests, \* RequestDeduplicator.pendingRequests : Map<string, PendingRequest>
  dcall,           \* the RequestDeduplicator.execute calls and where each stands
  dop,             \* the operation() each execute call has invoked
  ncancel          \* history: number of pending entries removed by cancelRequest

VARIABLES
  retryAttempts,   \* RetryManager.retryAttempts : Map<string, number>
  rt               \* the RetryManager.execute call and where it stands

cbVars == <<circuits, call, last, sinceSuccess, trialLeft>>

ddVars == <<pendingRequests, dcall, dop, ncancel>>

rtVars == <<retryAttempts, rt>>

VARIABLES
  sv               \* the ServerToolExecutor.executeInternal runs

VARIABLES
  buckets,         \* RateLimiter.buckets : Map<string, RateLimitBucket>
  rlConfig,        \* the IRateLimitConfig the callers pass for each key
  rlLast,          \* the rate limiter operation that acted last
  rlHist,          \* history: the window of each key and the calls admitted in it
  nextCleanup,     \* the time at which the cleanup interval fires next
  rlTicks          \* number of steps the clock took within the intervals

rlVars == <<buckets, rlConfig, rlLast, rlHist, nextCleanup, rlTicks>>

VARIABLES
  memoryCache,     \* CacheManager.memoryCache : the data of the NodeCache
  storage,         \* localStorage and sessionStorage: the items under the prefixes
  hasWindow,       \* whether the code runs in a browser (typeof window)
  cmTier,          \* the strategy the callers of a behaviour pass
  cmLast,          \* the cache operation that acted last and what it returned
  cmHist,          \* history: the last set of each key in each tier that stands
  nextCheck,       \* the time at which the checkperiod timer fires next
  cmTicks          \* number of steps the clock took within the check periods

cmVars ==
  <<memoryCache, storage, hasWindow, cmTier, cmLast, cmHist, nextCheck, cmTicks>>

VARIABLES
  orSeq,           \* the executeSequence run of the ToolOrchestrator
  orPar            \* the executeParallel run of the ToolOrchestrator

orVars == <<orSeq, orPar>>

VARIABLES
  heap,            \* the objects of the state layer, by reference
  smState,         \* StateManager.currentState (a reference)
  stState,         \* StateStore.currentState (a reference)
  history,         \* StateStore.history
  eventCounter,    \* StateStore.eventCounter
  snapshots,       \* StateStore.snapshots, in the order of the Map
  subscriptions,   \* StateManager.subscriptions: the watched paths
  stConfig,        \* StateManager.config
  logged,          \* history: the events as they were when appended
  ckptDoc,         \* history: the document of the manager at createCheckpoint
  stLast           \* the state operation that acted last and what it did

stVars ==
  <<heap, smState, stState, history, eventCounter, snapshots, subscriptions,
    stConfig, logged, ckptDoc, stLast>>

\* The client tool executor
VARIABLES
  rollbackStack,   \* ClientToolExecutor.rollbackStack
  clRun,           \* the rollback() call: where it is and what it has invoked
  hasProcess       \* whether the host defines the global process

clVars == <<rollbackStack, clRun, hasProcess>>

VARIABLES
  plState,         \* HaloStatePlugin.state: the form and _events.checkpoints
  dependencyGraph, \* HaloStatePlugin.dependencyGraph : Map<string, string[]>
  plConfig,        \* HaloStatePlugin.config
  plLast,          \* the last call made on the plugin and what it returned
  plKept,          \* history: the form at the creation of each checkpoint
                   \* that the checkpoint limit has not evicted
  plCreated        \* number of createCheckpoint calls made

plVars == <<plState, dependencyGraph, plConfig, plLast, plKept, plCreated>>

VARIABLES
  authConfigs,     \* AuthManager.authConfigs : Map<string, AuthConfig>
  au               \* the getAuthConfig call of each connection: where it is
                   \* and the token refreshes it has performed

auVars == <<authConfigs, au>>

vars == <<now, cbVars, ddVars, rtVars, sv, rlVars, cmVars, orVars, stVars, clVars,
         plVars, auVars>>

-----------------------------------------------------------------------------
(* Bounds *)

\* config.failureThreshold passed by the callers of the breaker
FailureThreshold == 2
\* config.resetTimeoutMs passed by the callers of the breaker
ResetTimeoutMs == 2
\* number of clock ticks a behaviour may take
Horizon == 3
\* number of concurrent callers of CircuitBreaker.execute
NCallers == 2
\* cap on the failures counter of one circuit
MaxCount == 3

Keys == {"k1", "k2"}
Callers == 1..NCallers

\* the circuit the callers of the breaker use: the records of the map are
\* independent of each other, every method reads and writes the one record of
\* its circuitId
CircuitIds == {"k1"}

\* Date.now() is far larger than any timeout, so a lastFailureTime of 0 is
\* always "long ago"
StartTime == ResetTimeoutMs
MaxTime == StartTime + Horizon

-----------------------------------------------------------------------------
(* error.types.ts *)

ToolError(name, code, toolId, retryable) ==
  [name |-> name, code |-> code, toolId |-> toolId, retryable |-> retryable]

CircuitBreakerError(toolId) ==
  ToolError("CircuitBreakerError", "CIRCUIT_BREAKER_OPEN", toolId, FALSE)

\* an error thrown by the operation handed to the breaker
OperationError == ToolError("Error", "OPERATION_FAILED", "", FALSE)

NoError == ToolError("", "", "", FALSE)

-----------------------------------------------------------------------------
(* CircuitBreaker.ts *)

defaultConfig == [failureThreshold |-> 5, resetTimeoutMs |-> 60000]

\* the config object the callers of this model pass
CallConfig ==
  [failureThreshold |-> FailureThreshold, resetTimeoutMs |-> ResetTimeoutMs]

NoConfig == [none |-> TRUE]

\* { ...this.defaultConfig, ...config }
effectiveConfig(config) ==
  IF config = NoConfig THEN defaultConfig
  ELSE [f \in DOMAIN defaultConfig |->
          IF f \in DOMAIN config THEN config[f] ELSE defaultConfig[f]]

\* CircuitBreakerStats. successes and lastSuccessTime are statistics that the
\* breaker only ever writes (recordSuccess) and copies into events; no branch
\* reads them, and the model leaves them out.
NewStats == [failures |-> 0, lastFailureTime |-> 0, state |-> "closed"]

\* the map after getStats(circuitId): the record is created lazily
getStats(cs, circuitId) ==
  IF circuitId \in DOMAIN cs THEN cs ELSE cs @@ (circuitId :> NewStats)

transitionToOpen(cs, circuitId) ==
  [getStats(cs, circuitId) EXCEPT ![circuitId].state = "open"]

\* faulty variant: the failure count is not reset when closing
transitionToClosed_keepFailures(cs, circuitId) ==
  [getStats(cs, circuitId) EXCEPT ![circuitId].state = "closed"]

transitionToClosed(cs, circuitId) ==
  [getStats(cs, circuitId) EXCEPT ![circuitId].state = "closed",
                                  ![circuitId].failures = 0]

transitionToHalfOpen(cs, circuitId) ==
  [getStats(cs, circuitId) EXCEPT ![circuitId].state = "half-open"]

\* faulty variant: the timeout is compared with the clock, not with the time
\* since the last failure
isOpen_clockOnly(cs, circuitId, t, config) ==
  LET c1 == getStats(cs, circuitId)
      stats == c1[circuitId]
      cfg == effectiveConfig(config)
  IN  IF stats.state = "open"
      THEN IF t >= cfg.resetTimeoutMs
           THEN [ret |-> FALSE, cs |-> transitionToHalfOpen(c1, circuitId)]
           ELSE [ret |-> TRUE, cs |-> c1]
      ELSE [ret |-> FALSE, cs |-> c1]

\* isOpen: the value it returns and the map it leaves
isOpen(cs, circuitId, t, config) ==
  LET c1 == getStats(cs, circuitId)
      stats == c1[circuitId]
      cfg == effectiveConfig(config)
  IN  IF stats.state = "open"
      THEN IF t - stats.lastFailureTime >= cfg.resetTimeoutMs
           THEN [ret |-> FALSE, cs |-> transitionToHalfOpen(c1, circuitId)]
           ELSE [ret |-> TRUE, cs |-> c1]
      ELSE [ret |-> FALSE, cs |-> c1]

recordSuccess(cs, circuitId, t) ==
  LET c1 == getStats(cs, circuitId)
  IN  IF c1[circuitId].state = "half-open" THEN transitionToClosed(c1, circuitId)
      ELSE IF c1[circuitId].state = "open" THEN transitionToClosed(c1, circuitId)
      ELSE c1

\* faulty variant: a failure in half-open does not reopen the breaker
recordFailure_noReopen(cs, circuitId, t, config) ==
  LET cfg == effectiveConfig(config)
      c1 == [getStats(cs, circuitId) EXCEPT
               ![circuitId].failures = @ + 1,
               ![circuitId].lastFailureTime = t]
  IN  IF c1[circuitId].state = "closed"
         /\ c1[circuitId].failures >= cfg.failureThreshold
      THEN transitionToOpen(c1, circuitId)
      ELSE c1

recordFailure(cs, circuitId, t, config) ==
  LET cfg == effectiveConfig(config)
      c1 == [getStats(cs, circuitId) EXCEPT
               ![circuitId].failures = @ + 1,
               ![circuitId].lastFailureTime = t]
  IN  IF c1[circuitId].state = "closed"
         /\ c1[circuitId].failures >= cfg.failureThreshold
      THEN transitionToOpen(c1, circuitId)
      ELSE IF c1[circuitId].state = "half-open"
      THEN transitionToOpen(c1, circuitId)
      ELSE c1

reset(cs, circuitId) == [k \in DOMAIN cs \ {circuitId} |-> cs[k]]

resetAll(cs) == [k \in {} |-> NewStats]

forceOpen(cs, circuitId) == transitionToOpen(getStats(cs, circuitId), circuitId)

forceClosed(cs, circuitId) ==
  transitionToClosed(getStats(cs, circuitId), circuitId)

\* getState(circuitId), read without creating the record
StateOf(cs, circuitId) ==
  IF circuitId \in DOMAIN cs THEN cs[circuitId].state ELSE "closed"

StatsOf(cs, circuitId) ==
  IF circuitId \in DOMAIN cs THEN cs[circuitId] ELSE NewStats

-----------------------------------------------------------------------------
(* The callers of CircuitBreaker.execute *)

\* the breaker leaves the other subsystems alone
CBOthers == UNCHANGED <<ddVars, rtVars, sv, rlVars, cmVars, orVars, stVars,
              clVars, plVars, auVars>>

\* a caller is idle or waits for its operation(), which the breaker let
\* through in the state admit ("past": in a half-open phase that has ended)
IdleCall == [pc |-> "idle", key |-> "k1", admit |-> "none"]

\* what the last call of the breaker gave its caller, and the phase it found
\* the circuit in ("elapsed": open, with resetTimeoutMs elapsed)
NoOp == [out |-> "none", key |-> "k1", prev |-> "none", err |-> NoError]

Phase(k) ==
  IF StateOf(circuits, k) = "open"
     /\ now - StatsOf(circuits, k).lastFailureTime >= ResetTimeoutMs
  THEN "elapsed"
  ELSE StateOf(circuits, k)

\* the half-open phase of k has ended: its trial calls are calls of the past
Retire(cl, k) ==
  [c \in Callers |->
     IF cl[c].pc = "running" /\ cl[c].key = k /\ cl[c].admit = "half-open"
     THEN [cl[c] EXCEPT !.admit = "past"]
     ELSE cl[c]]

CBIdle ==
  /\ circuits = [k \in {} |-> NewStats]
  /\ call = [c \in Callers |-> IdleCall]
  /\ last = NoOp
  /\ sinceSuccess = [k \in CircuitIds |-> 0]
  /\ trialLeft = [k \in CircuitIds |-> 0]

\* execute(), up to the call of operation(): the isOpen check either throws
\* CircuitBreakerError or lets the operation start
CBExecute(c, k) ==
  /\ call[c].pc = "idle"
  /\ LET r == isOpen(circuits, k, now, CallConfig)
     IN  /\ circuits' = r.cs
         /\ IF r.ret
            THEN /\ call' = call
                 /\ last' = [out |-> "rejected", key |-> k, prev |-> Phase(k),
                             err |-> CircuitBreakerError(k)]
            ELSE /\ call' = [call EXCEPT ![c] =
                       [pc |-> "running", key |-> k, admit |-> r.cs[k].state]]
                 /\ last' = [out |-> "admitted", key |-> k, prev |-> Phase(k),
                             err |-> NoError]
  /\ UNCHANGED <<now, sinceSuccess, trialLeft>>
  /\ CBOthers

\* execute(): operation() fulfilled, recordSuccess, return result
CBOpSucceeds(c) ==
  /\ call[c].pc = "running"
  /\ LET k == call[c].key
     IN  /\ circuits' = recordSuccess(circuits, k, now)
         /\ last' = [out |-> "ok", key |-> k, prev |-> Phase(k),
                     err |-> NoError]
         /\ sinceSuccess' = [sinceSuccess EXCEPT ![k] = 0]
         /\ call' = [Retire(call, k) EXCEPT ![c] = IdleCall]
  /\ UNCHANGED <<now, trialLeft>>
  /\ CBOthers

\* execute(): operation() rejected, recordFailure, rethrow
CBOpFails(c) ==
  /\ call[c].pc = "running"
  /\ StatsOf(circuits, call[c].key).failures < MaxCount
  /\ sinceSuccess[call[c].key] < MaxCount
  /\ LET k == call[c].key
     IN  /\ circuits' = recordFailure(circuits, k, now, CallConfig)
         /\ last' = [out |-> "failed", key |-> k, prev |-> Phase(k),
                     err |-> OperationError]
         /\ sinceSuccess' = [sinceSuccess EXCEPT ![k] = @ + 1]
         /\ trialLeft' = IF StateOf(circuits, k) = "half-open"
                         THEN [trialLeft EXCEPT ![k] = ResetTimeoutMs]
                         ELSE trialLeft
         /\ call' = [Retire(call, k) EXCEPT ![c] = IdleCall]
  /\ UNCHANGED now
  /\ CBOthers

\* a direct isOpen(circuitId, config) check
CBIsOpen(k) ==
  /\ LET r == isOpen(circuits, k, now, CallConfig)
     IN  /\ circuits' = r.cs
         /\ last' = [out |-> IF r.ret THEN "isOpen" ELSE "notOpen",
                     key |-> k, prev |-> Phase(k), err |-> NoError]
  /\ UNCHANGED <<now, call, sinceSuccess, trialLeft>>
  /\ CBOthers

CBReset(k) ==
  /\ circuits' = reset(circuits, k)
  /\ last' = NoOp
  /\ sinceSuccess' = [sinceSuccess EXCEPT ![k] = 0]
  /\ trialLeft' = [trialLeft EXCEPT ![k] = 0]
  /\ call' = Retire(call, k)
  /\ UNCHANGED now
  /\ CBOthers

CBResetAll ==
  /\ circuits' = resetAll(circuits)
  /\ last' = NoOp
  /\ sinceSuccess' = [k \in CircuitIds |-> 0]
  /\ trialLeft' = [k \in CircuitIds |-> 0]
  /\ call' = [c \in Callers |->
                IF call[c].pc = "running" /\ call[c].admit = "half-open"
                THEN [call[c] EXCEPT !.admit = "past"]
                ELSE call[c]]
  /\ UNCHANGED now
  /\ CBOthers

CBForceOpen(k) ==
  /\ circuits' = forceOpen(circuits, k)
  /\ last' = NoOp
  /\ call' = Retire(call, k)
  /\ UNCHANGED <<now, sinceSuccess, trialLeft>>
  /\ CBOthers

CBForceClosed(k) ==
  /\ circuits' = forceClosed(circuits, k)
  /\ last' = NoOp
  /\ call' = Retire(call, k)
  /\ UNCHANGED <<now, sinceSuccess, trialLeft>>
  /\ CBOthers

\* time passes
CBTick ==
  /\ now < MaxTime
  /\ now' = now + 1
  /\ last' = NoOp
  /\ trialLeft' = [k \in CircuitIds |-> IF trialLeft[k] > 0 THEN trialLeft[k] - 1 ELSE 0]
  /\ UNCHANGED <<circuits, call, sinceSuccess>>
  /\ CBOthers

CBNext ==
  \/ \E c \in Callers, k \in CircuitIds : CBExecute(c, k)
  \/ \E c \in Callers : CBOpSucceeds(c)
  \/ \E c \in Callers : CBOpFails(c)
  \/ \E k \in CircuitIds : CBIsOpen(k)
  \/ \E k \in CircuitIds : CBReset(k)
  \/ CBResetAll
  \/ \E k \in CircuitIds : CBForceOpen(k)
  \/ \E k \in CircuitIds : CBForceClosed(k)
  \/ CBTick

-----------------------------------------------------------------------------
(* RequestDeduplicator.ts *)

\* number of execute calls made on the deduplicator
NCalls == 3
\* number of cleanup intervals a behaviour may take
DDHorizon == 4
\* number of pending entries cancelRequest may remove in a behaviour
MaxCancel == 2

DCalls == 1..NCalls

maxAge == 30000

\* the interval of the cleanup timer, and the step of the clock
CleanupIntervalMs == 10000

DDMaxTime == DDHorizon * CleanupIntervalMs

\* what a promise settles with: the result of the operation invoked by call
\* op, the error it threw, a falsy rejection reason (reject(undefined)), or
\* the Error made by cancelRequest
Outcome(kind, op) == [kind |-> kind, op |-> op]

NoOutcome == Outcome("none", 0)

Null == Outcome("null", 0)

\* JavaScript truthiness of a rejection reason / a result
Truthy(o) == o.kind \in {"value", "error", "cancelled"}

IdleDCall ==
  [pc |-> "idle", key |-> "k1", op |-> 0, via |-> "none", res |-> NoOutcome]

NoDOp == [state |-> "none", key |-> "k1", registered |-> FALSE, out |-> NoOutcome]

EmptyMap == [k \in {} |-> 0]

Remove(m, k) == [x \in DOMAIN m \ {k} |-> m[x]]

\* the calls waiting on the resolvers rs are settled with outcome o
SettleResolvers(dc, rs, o) ==
  [c \in DCalls |->
     IF \E i \in 1..Len(rs) : rs[i] = c
     THEN [dc[c] EXCEPT !.pc = "done", !.res = o]
     ELSE dc[c]]

\* completeRequest(key, result, error): the entry that is pending for key now
\* has its resolvers settled and is removed
completeRequest(pr, dc, key, result, error) ==
  IF key \notin DOMAIN pr THEN [pr |-> pr, dc |-> dc]
  ELSE [pr |-> Remove(pr, key),
        dc |-> IF Truthy(error)
               THEN SettleResolvers(dc, pr[key].resolvers, error)
               ELSE IF Truthy(result)
               THEN SettleResolvers(dc, pr[key].resolvers, result)
               ELSE dc]

\* cancelRequest(key)
cancelRequest(pr, dc, key) ==
  IF key \notin DOMAIN pr THEN [pr |-> pr, dc |-> dc, ret |-> FALSE]
  ELSE [pr |-> Remove(pr, key),
        dc |-> SettleResolvers(dc, pr[key].resolvers, Outcome("cancelled", 0)),
        ret |-> TRUE]

\* the keys cleanup() removes
keysToRemove(pr, t) == {k \in DOMAIN pr : t - pr[k].timestamp > maxAge}

RECURSIVE cancelAll(_, _, _)
cancelAll(pr, dc, ks) ==
  IF ks = {} THEN [pr |-> pr, dc |-> dc]
  ELSE LET k == CHOOSE x \in ks : TRUE
           r == cancelRequest(pr, dc, k)
       IN  cancelAll(r.pr, r.dc, ks \ {k})

\* the deduplicator leaves the other subsystems alone
DDOthers == UNCHANGED <<cbVars, rtVars, sv, rlVars, cmVars, orVars, stVars,
              clVars, plVars, auVars>>

DDInit ==
  /\ pendingRequests = EmptyMap
  /\ dcall = [c \in DCalls |-> IdleDCall]
  /\ dop = [c \in DCalls |-> NoDOp]
  /\ ncancel = 0

\* execute(), up to its await: checkAndWait either queues a resolver on the
\* pending entry or resolves with null
DDCheck(c, k) ==
  /\ dcall[c].pc = "idle"
  /\ IF k \in DOMAIN pendingRequests
     THEN /\ pendingRequests' = [pendingRequests EXCEPT
                                   ![k].resolvers = Append(@, c)]
          /\ dcall' = [dcall EXCEPT ![c].pc = "queued", ![c].key = k,
                                    ![c].op = pendingRequests[k].op,
                                    ![c].via = "queued"]
     ELSE /\ pendingRequests' = pendingRequests
          /\ dcall' = [dcall EXCEPT ![c].pc = "checked", ![c].key = k]
  /\ UNCHANGED <<now, dop, ncancel>>
  /\ DDOthers

\* execute(), after its await gave null: operation() is invoked and
\* registerRequest registers its promise unless the key is pending
DDResume(c) ==
  /\ dcall[c].pc = "checked"
  /\ LET k == dcall[c].key
         free == k \notin DOMAIN pendingRequests
     IN  /\ dop' = [dop EXCEPT ![c] = [state |-> "running", key |-> k,
                                       registered |-> free, out |-> NoOutcome]]
         /\ pendingRequests' =
              IF free
              THEN pendingRequests @@
                     (k :> [op |-> c, timestamp |-> now, resolvers |-> <<>>])
              ELSE pendingRequests
         /\ dcall' = [dcall EXCEPT ![c].pc = "own", ![c].op = c,
                                   ![c].via = "own"]
  /\ UNCHANGED <<now, ncancel>>
  /\ DDOthers

\* the promise of the operation invoked by call c settles: its caller has
\* the outcome and, if the promise was registered, completeRequest runs
DDSettle(c, kind) ==
  /\ dop[c].state = "running"
  /\ LET o == Outcome(kind, c)
         dc1 == [dcall EXCEPT ![c].pc = "done", ![c].res = o]
         r == IF ~dop[c].registered
              THEN [pr |-> pendingRequests, dc |-> dc1]
              ELSE IF kind = "value"
              THEN completeRequest(pendingRequests, dc1, dop[c].key, o, Null)
              ELSE completeRequest(pendingRequests, dc1, dop[c].key, Null, o)
     IN  /\ dop' = [dop EXCEPT ![c].state = "settled", ![c].out = o]
         /\ pendingRequests' = r.pr
         /\ dcall' = r.dc
  /\ UNCHANGED <<now, ncancel>>
  /\ DDOthers

\* cancelRequest(key) on a pending key
DDCancel(k) ==
  /\ k \in DOMAIN pendingRequests
  /\ ncancel < MaxCancel
  /\ LET r == cancelRequest(pendingRequests, dcall, k)
     IN  /\ pendingRequests' = r.pr
         /\ dcall' = r.dc
  /\ ncancel' = ncancel + 1
  /\ UNCHANGED <<now, dop>>
  /\ DDOthers

\* the cleanup timer fires
DDCleanup ==
  /\ LET ks == keysToRemove(pendingRequests, now)
         r == cancelAll(pendingRequests, dcall, ks)
     IN  /\ ncancel + Cardinality(ks) <= MaxCancel
         /\ pendingRequests' = r.pr
         /\ dcall' = r.dc
         /\ ncancel' = ncancel + Cardinality(ks)
  /\ UNCHANGED <<now, dop>>
  /\ DDOthers

\* time passes
DDTick ==
  /\ now < DDMaxTime
  /\ now' = now + CleanupIntervalMs
  /\ UNCHANGED ddVars
  /\ DDOthers

DDNext ==
  \/ \E c \in DCalls, k \in Keys : DDCheck(c, k)
  \/ \E c \in DCalls : DDResume(c)
  \/ \E c \in DCalls, kind \in {"value", "error", "falsy"} : DDSettle(c, kind)
  \/ \E k \in Keys : DDCancel(k)
  \/ DDCleanup
  \/ DDTick

-----------------------------------------------------------------------------
(* RetryManager.ts, and the shouldRetry of ServerToolExecutor.ts *)

\* largest config.max a caller passes
MaxRetries == 2

\* the errors an operation may throw: what shouldRetry reads of them
ErrorOf(name, isAxios, code, status) ==
  [name |-> name, isAxios |-> isAxios, code |-> code, status |-> status]

NoFailure == ErrorOf("", FALSE, "", 0)

Failures ==
  { ErrorOf("AxiosError", TRUE, "ECONNABORTED", 0),
    ErrorOf("AxiosError", TRUE, "ECONNREFUSED", 0),
    ErrorOf("AxiosError", TRUE, "ENOTFOUND", 0),
    ErrorOf("AxiosError", TRUE, "ERR_BAD_RESPONSE", 500),
    ErrorOf("AxiosError", TRUE, "ERR_BAD_REQUEST", 404),
    ErrorOf("TimeoutError", FALSE, "TIMEOUT_ERROR", 0),
    ErrorOf("Error", FALSE, "", 500),
    ErrorOf("Error", FALSE, "", 0) }

RetryOnValues == {"timeout", "5xx", "network", "all"}

\* ServerToolExecutor.shouldRetry(error, retryOn)
shouldRetry(error, retryOn) ==
  IF "all" \in retryOn THEN TRUE
  ELSE IF "timeout" \in retryOn
          /\ (error.code = "ECONNABORTED" \/ error.name = "TimeoutError")
  THEN TRUE
  ELSE IF "5xx" \in retryOn /\ error.isAxios /\ error.status # 0
          /\ error.status >= 500
  THEN TRUE
  ELSE IF "network" \in retryOn
          /\ (error.code = "ECONNREFUSED" \/ error.code = "ENOTFOUND")
  THEN TRUE
  ELSE FALSE

RECURSIVE Pow2(_)
Pow2(n) == IF n <= 0 THEN 1 ELSE 2 * Pow2(n - 1)

\* an optional number that is absent
Undefined == -1

\* calculateDelay(config, attempt); config.backoffMs || 1000 takes 1000 for an
\* absent backoffMs and for a backoffMs of 0
calculateDelay(config, attempt) ==
  LET baseDelay == IF config.backoffMs = Undefined \/ config.backoffMs = 0
                   THEN 1000 ELSE config.backoffMs
  IN  IF config.strategy = "exponential" THEN baseDelay * Pow2(attempt - 1)
      ELSE IF config.strategy = "linear" THEN baseDelay * attempt
      ELSE baseDelay

\* the configs the callers pass
RetryConfigs ==
  [max : 0..MaxRetries, strategy : {"exponential", "linear", "fixed"},
   backoffMs : {Undefined, 0, 100}, retryOn : SUBSET RetryOnValues]

\* faulty variant: the predicate of the caller is not consulted
willRetry_ignorePredicate(attempt, config, hasShouldRetry, error) ==
  attempt < config.max

\* the catch block of execute: whether the loop goes on to another attempt
\* after the failure of attempt number attempt
willRetry(attempt, config, hasShouldRetry, error) ==
  IF hasShouldRetry /\ ~shouldRetry(error, config.retryOn) THEN FALSE
  ELSE IF attempt >= config.max THEN FALSE
  ELSE TRUE

OperationId == "op"

IdleRetry ==
  [pc |-> "idle", config |-> [max |-> 0, strategy |-> "fixed", backoffMs |-> 0,
                              retryOn |-> {}],
   hasShouldRetry |-> FALSE, attempt |-> 0, calls |-> 0, delay |-> 0,
   lastError |-> NoFailure, thrown |-> NoFailure]

\* the retry manager leaves the other subsystems alone
RTOthers ==
  UNCHANGED <<now, cbVars, ddVars, sv, rlVars, cmVars, orVars, stVars,
              clVars, plVars, auVars>>

RTInit ==
  /\ retryAttempts = EmptyMap
  /\ rt = IdleRetry

\* execute(operation, config, shouldRetry?, operationId): the first attempt
\* invokes operation() without a delay
RTStart(config, hasShouldRetry) ==
  /\ rt.pc = "idle"
  /\ retryAttempts' = [k \in DOMAIN retryAttempts \cup {OperationId} |-> 0]
  /\ rt' = [IdleRetry EXCEPT !.pc = "calling", !.config = config,
                            !.hasShouldRetry = hasShouldRetry, !.calls = 1]
  /\ RTOthers

\* operation() fulfilled: the entry is deleted and the result returned
RTOpSucceeds ==
  /\ rt.pc = "calling"
  /\ retryAttempts' = Remove(retryAttempts, OperationId)
  /\ rt' = [rt EXCEPT !.pc = "returned"]
  /\ RTOthers

\* operation() rejected: the catch block, then either the next iteration up
\* to its sleep, or the end of the loop and the throw of lastError
RTOpFails(error) ==
  /\ rt.pc = "calling"
  /\ IF willRetry(rt.attempt, rt.config, rt.hasShouldRetry, error)
     THEN /\ retryAttempts' = [retryAttempts EXCEPT ![OperationId] = rt.attempt + 1]
          /\ rt' = [rt EXCEPT !.pc = "sleeping", !.lastError = error,
                              !.attempt = @ + 1,
                              !.delay = calculateDelay(rt.config, rt.attempt + 1)]
     ELSE /\ retryAttempts' = Remove(retryAttempts, OperationId)
          /\ rt' = [rt EXCEPT !.pc = "thrown", !.lastError = error,
                              !.thrown = error]
  /\ RTOthers

\* the sleep is over: operation() is invoked again
RTWake ==
  /\ rt.pc = "sleeping"
  /\ rt' = [rt EXCEPT !.pc = "calling", !.calls = @ + 1]
  /\ UNCHANGED retryAttempts
  /\ RTOthers

\* the caller has its result or its error
RTDone ==
  /\ rt.pc \in {"returned", "thrown"}
  /\ rt' = IdleRetry
  /\ UNCHANGED retryAttempts
  /\ RTOthers

RTNext ==
  \/ \E config \in RetryConfigs, h \in BOOLEAN : RTStart(config, h)
  \/ RTOpSucceeds
  \/ \E error \in Failures : RTOpFails(error)
  \/ RTWake
  \/ RTDone

-----------------------------------------------------------------------------
(* ServerToolExecutor.ts *)

\* number of concurrent executeInternal runs
NExecs == 2
\* number of clock steps a behaviour of the executor may take
SVHorizon == 2
\* cap on the failures counter of a circuit of the executor
SVMaxFailures == 6

Execs == 1..NExecs

\* the step of the clock of the executor
SVTickMs == 30000

SVStartTime == defaultConfig.resetTimeoutMs

SVMaxTime == SVStartTime + SVHorizon * SVTickMs

NoRetry == [max |-> -1, strategy |-> "fixed", backoffMs |-> 0, retryOn |-> {}]

\* the tools that are executed: k1 has a circuit breaker, deduplication and a
\* retry policy, k2 has deduplication only; neither has a cache policy nor
\* assignments, and the state their templates read does not change
Tools ==
  { [id |-> "k1",
     circuitBreaker |-> [enabled |-> TRUE, failureThreshold |-> FailureThreshold,
                         resetTimeoutMs |-> ResetTimeoutMs],
     deduplication |-> [enabled |-> TRUE],
     retry |-> [max |-> 1, strategy |-> "fixed", backoffMs |-> 0,
                retryOn |-> {"timeout", "5xx", "network"}]],
    [id |-> "k2",
     circuitBreaker |-> [enabled |-> FALSE, failureThreshold |-> FailureThreshold,
                         resetTimeoutMs |-> ResetTimeoutMs],
     deduplication |-> [enabled |-> TRUE],
     retry |-> NoRetry] }

ToolOf(id) == CHOOSE t \in Tools : t.id = id

\* the errors httpClient.request rejects with
SVFailures ==
  { ErrorOf("AxiosError", TRUE, "ECONNABORTED", 0),
    ErrorOf("AxiosError", TRUE, "ERR_BAD_RESPONSE", 500),
    ErrorOf("AxiosError", TRUE, "ERR_BAD_REQUEST", 404) }

\* buildDeduplicationKey(tool, processedUrl, context): `${tool.id}:${url}`,
\* the url being the same for every run of a tool
buildDeduplicationKey(tool) == tool.id

\* RetryManager.generateId(): never the id of a tool
generateId(e) == IF e = 1 THEN "retry_1" ELSE IF e = 2 THEN "retry_2" ELSE "retry_n"

\* RetryManager.getRetryCount(operationId) || 0
getRetryCount(ra, operationId) ==
  IF operationId \in DOMAIN ra THEN ra[operationId] ELSE 0

IdleExec ==
  [pc |-> "idle", tool |-> "k1", attempt |-> 0, calls |-> 0,
   out |-> "none", err |-> "", retryCount |-> 0, lastError |-> NoFailure,
   sawInFlight |-> FALSE, aborted |-> FALSE]

\* IToolExecutionContext: the cancellation signal of the context has fired
\* or has not; the context carries no signal when abortSignal is undefined,
\* which the executor cannot tell from a signal that has not fired
Contexts == {[abortSignal |-> [aborted |-> b]] : b \in BOOLEAN}

\* the catch block of executeInternal: the failure is recorded by the
\* breaker, then classified; a timeout and a 5xx are thrown, everything else
\* is returned as a failed result
Caught(x, name, error) ==
  IF error.isAxios /\ error.code = "ECONNABORTED"
  THEN [x EXCEPT !.pc = "done", !.out = "thrown", !.err = "TimeoutError",
                 !.lastError = error]
  ELSE IF error.isAxios /\ error.status # 0 /\ error.status >= 500
  THEN [x EXCEPT !.pc = "done", !.out = "thrown", !.err = "NetworkError",
                 !.lastError = error]
  ELSE [x EXCEPT !.pc = "done", !.out = "failed", !.err = name,
                 !.lastError = error]

CaughtCircuits(tool) ==
  IF tool.circuitBreaker.enabled
  THEN recordFailure(circuits, tool.id, now, NoConfig)
  ELSE circuits

\* the runs of a tool whose network call is in flight
Requests(id) == {e \in Execs : sv[e].pc = "request" /\ sv[e].tool = id}

\* executeRequest is called: by retryManager.execute if the tool has a retry
\* policy, directly otherwise
Requesting(x, e, tool) ==
  [x EXCEPT !.pc = "request", !.attempt = 0, !.calls = 1]

RequestingAttempts(ra, e, tool) ==
  IF tool.retry # NoRetry
  THEN [k \in DOMAIN ra \cup {generateId(e)} |->
          IF k = generateId(e) THEN 0 ELSE ra[k]]
  ELSE ra

\* the executor leaves the histories of the other subsystems alone
SVOthers ==
  UNCHANGED <<call, last, trialLeft, dcall, dop, ncancel, rt,
              rlVars, cmVars, orVars, stVars, clVars, plVars, auVars>>

\* the executions of a tool that failed since its last successful one
Failed(tool) ==
  IF tool.circuitBreaker.enabled /\ tool.id \in CircuitIds
  THEN [sinceSuccess EXCEPT ![tool.id] = @ + 1]
  ELSE sinceSuccess

Succeeded(tool) ==
  IF tool.circuitBreaker.enabled /\ tool.id \in CircuitIds
  THEN [sinceSuccess EXCEPT ![tool.id] = 0]
  ELSE sinceSuccess

SVInit ==
  /\ sv = [e \in Execs |-> IdleExec]

\* executeInternal up to its first await: the breaker check, the templates,
\* and the checkAndWait of the deduplicator; context.abortSignal is not read
SVStart(e, tool, context) ==
  /\ sv[e].pc = "idle"
  /\ tool.circuitBreaker.enabled
       => StatsOf(circuits, tool.id).failures < SVMaxFailures
  /\ LET x == [IdleExec EXCEPT !.tool = tool.id,
                               !.sawInFlight = Requests(tool.id) # {},
                               !.aborted = context.abortSignal.aborted]
         r == IF tool.circuitBreaker.enabled
              THEN isOpen(circuits, tool.id, now, NoConfig)
              ELSE [ret |-> FALSE, cs |-> circuits]
     IN  IF r.ret
         THEN /\ circuits' = recordFailure(r.cs, tool.id, now, NoConfig)
              /\ sv' = [sv EXCEPT ![e] =
                          [x EXCEPT !.pc = "done", !.out = "failed",
                                    !.err = CircuitBreakerError(tool.id).name]]
              /\ sinceSuccess' = Failed(tool)
              /\ UNCHANGED <<pendingRequests, retryAttempts>>
         ELSE /\ circuits' = r.cs
              /\ UNCHANGED sinceSuccess
              /\ IF tool.deduplication.enabled
                 THEN IF buildDeduplicationKey(tool) \in DOMAIN pendingRequests
                      THEN /\ pendingRequests' =
                                [pendingRequests EXCEPT
                                   ![buildDeduplicationKey(tool)].resolvers =
                                      Append(@, e)]
                           /\ sv' = [sv EXCEPT ![e] = [x EXCEPT !.pc = "queued"]]
                           /\ UNCHANGED retryAttempts
                      ELSE /\ sv' = [sv EXCEPT ![e] = [x EXCEPT !.pc = "checked"]]
                           /\ UNCHANGED <<pendingRequests, retryAttempts>>
                 ELSE /\ sv' = [sv EXCEPT ![e] = Requesting(x, e, tool)]
                      /\ retryAttempts' = RequestingAttempts(retryAttempts, e, tool)
                      /\ UNCHANGED pendingRequests
  /\ UNCHANGED now
  /\ SVOthers

\* checkAndWait gave null: the request is issued
SVResume(e) ==
  /\ sv[e].pc = "checked"
  /\ sv' = [sv EXCEPT ![e] = Requesting(sv[e], e, ToolOf(sv[e].tool))]
  /\ retryAttempts' = RequestingAttempts(retryAttempts, e, ToolOf(sv[e].tool))
  /\ UNCHANGED <<now, circuits, pendingRequests, sinceSuccess>>
  /\ SVOthers

\* the response arrives: the retry count is read, the breaker records the
\* success and the result is returned
SVResponse(e) ==
  /\ sv[e].pc = "request"
  /\ LET tool == ToolOf(sv[e].tool)
         ra == IF tool.retry # NoRetry
               THEN Remove(retryAttempts, generateId(e))
               ELSE retryAttempts
     IN  /\ retryAttempts' = ra
         /\ sv' = [sv EXCEPT ![e].pc = "done", ![e].out = "ok",
                             ![e].retryCount =
                                IF tool.retry # NoRetry
                                THEN getRetryCount(ra, tool.id) ELSE 0]
         /\ circuits' = IF tool.circuitBreaker.enabled
                        THEN recordSuccess(circuits, tool.id, now)
                        ELSE circuits
         /\ sinceSuccess' = Succeeded(tool)
  /\ UNCHANGED <<now, pendingRequests>>
  /\ SVOthers

\* the request fails: the retry manager sleeps before another attempt, or
\* the error reaches the catch block of executeInternal
SVRequestFails(e, error) ==
  /\ sv[e].pc = "request"
  /\ LET tool == ToolOf(sv[e].tool)
     IN  /\ tool.circuitBreaker.enabled
              => StatsOf(circuits, tool.id).failures < SVMaxFailures
         /\ IF tool.retry # NoRetry
               /\ willRetry(sv[e].attempt, tool.retry, TRUE, error)
            THEN /\ retryAttempts' =
                      [retryAttempts EXCEPT ![generateId(e)] = sv[e].attempt + 1]
                 /\ sv' = [sv EXCEPT ![e].pc = "sleeping",
                                     ![e].attempt = @ + 1,
                                     ![e].lastError = error]
                 /\ UNCHANGED <<circuits, sinceSuccess>>
            ELSE /\ retryAttempts' =
                      IF tool.retry # NoRetry
                      THEN Remove(retryAttempts, generateId(e))
                      ELSE retryAttempts
                 /\ circuits' = CaughtCircuits(tool)
                 /\ sinceSuccess' = Failed(tool)
                 /\ sv' = [sv EXCEPT ![e] = Caught(sv[e], error.name, error)]
  /\ UNCHANGED <<now, pendingRequests>>
  /\ SVOthers

\* the sleep of the retry manager is over: the request is issued again
SVWake(e) ==
  /\ sv[e].pc = "sleeping"
  /\ sv' = [sv EXCEPT ![e].pc = "request", ![e].calls = @ + 1]
  /\ UNCHANGED <<now, circuits, pendingRequests, retryAttempts, sinceSuccess>>
  /\ SVOthers

\* the caller has its result
SVDone(e) ==
  /\ sv[e].pc = "done"
  /\ sv' = [sv EXCEPT ![e] = IdleExec]
  /\ UNCHANGED <<now, circuits, pendingRequests, retryAttempts, sinceSuccess>>
  /\ SVOthers

\* time passes
SVTick ==
  /\ now < SVMaxTime
  /\ now' = now + SVTickMs
  /\ UNCHANGED <<circuits, pendingRequests, retryAttempts, sv, sinceSuccess>>
  /\ SVOthers

SVNext ==
  \/ \E e \in Execs, tool \in Tools, context \in Contexts :
       SVStart(e, tool, context)
  \/ \E e \in Execs : SVResume(e)
  \/ \E e \in Execs : SVResponse(e)
  \/ \E e \in Execs, error \in SVFailures : SVRequestFails(e, error)
  \/ \E e \in Execs : SVWake(e)
  \/ \E e \in Execs : SVDone(e)
  \/ SVTick

-----------------------------------------------------------------------------
(* RateLimiter.ts *)

\* config.maxRequests of the policies
MaxRequests == 3
\* number of steps the clock may take within the cleanup intervals
RLHorizon == 2
\* number of cleanup intervals a behaviour may take
RLIntervals == 6

\* config.windowMs of the policies: a window of a second, and a window that is
\* longer than the idle period of the cleanup
WindowMs == 1000

LongWindowMs == 600000

\* the interval of the cleanup timer and the age at which it evicts
RLCleanupIntervalMs == 60000

RLMaxAge == 300000

RLMaxTime == RLIntervals * RLCleanupIntervalMs

\* the steps of the clock within a cleanup interval: a third of a window and
\* a window
RLSteps == {334, WindowMs}

RLKeys == {"k1"}

RLConfigs ==
  [maxRequests : {MaxRequests}, windowMs : {WindowMs, LongWindowMs},
   strategy : {"sliding", "fixed"}]

\* getBucket(key, config): the map after it, the bucket being created full
getBucket(bs, key, config, t) ==
  IF key \in DOMAIN bs THEN bs
  ELSE bs @@ (key :> [tokens |-> config.maxRequests, lastRefill |-> t,
                      windowStart |-> t, requestCount |-> 0])

\* Math.max(0, n)
Max0(n) == IF n > 0 THEN n ELSE 0

\* refillSlidingWindow(bucket, config, now): the bucket after it
refillSlidingWindow(bucket, config, t) ==
  LET timePassed == t - bucket.lastRefill
      refillAmount == (timePassed * config.maxRequests) \div config.windowMs
  IN  IF timePassed >= config.windowMs
      THEN [bucket EXCEPT !.requestCount = 0, !.lastRefill = t]
      ELSE [bucket EXCEPT !.requestCount = Max0(@ - refillAmount),
                          !.lastRefill = IF refillAmount > 0 THEN t ELSE @]

\* faulty variant: the window never rotates
refillFixedWindow_never(bucket, config, t) == bucket

\* refillFixedWindow(bucket, config, now): the bucket after it
refillFixedWindow(bucket, config, t) ==
  IF t - bucket.windowStart >= config.windowMs
  THEN [bucket EXCEPT !.tokens = config.maxRequests, !.requestCount = 0,
                      !.windowStart = t, !.lastRefill = t]
  ELSE bucket

\* checkSlidingWindow(bucket, config, tokens, now): what it returns and the
\* bucket it leaves
checkSlidingWindow(bucket, config, tokens, t) ==
  LET b == refillSlidingWindow(bucket, config, t)
  IN  IF b.requestCount + tokens <= config.maxRequests
      THEN [ret |-> TRUE,
            bucket |-> [b EXCEPT !.requestCount = @ + tokens, !.lastRefill = t]]
      ELSE [ret |-> FALSE, bucket |-> b]

\* checkFixedWindow(bucket, config, tokens, now)
checkFixedWindow(bucket, config, tokens, t) ==
  LET b == refillFixedWindow(bucket, config, t)
  IN  IF b.tokens >= tokens
      THEN [ret |-> TRUE,
            bucket |-> [b EXCEPT !.tokens = @ - tokens,
                                 !.requestCount = @ + tokens]]
      ELSE [ret |-> FALSE, bucket |-> b]

\* checkLimit(key, config, tokens): what it returns and the map it leaves
checkLimit(bs, key, config, tokens, t) ==
  LET b1 == getBucket(bs, key, config, t)
      r == IF config.strategy = "sliding"
           THEN checkSlidingWindow(b1[key], config, tokens, t)
           ELSE checkFixedWindow(b1[key], config, tokens, t)
  IN  [ret |-> r.ret, bs |-> [b1 EXCEPT ![key] = r.bucket]]

\* the buckets cleanup() removes
RLKeysToRemove(bs, t) == {k \in DOMAIN bs : t - bs[k].lastRefill > RLMaxAge}

NoRLOp ==
  [op |-> "none", key |-> "k1", allowed |-> FALSE, removed |-> {},
   used |-> 0, elapsed |-> 0]

NoWindow ==
  [start |-> -1, admitted |-> 0, checked |-> -1, since |-> -1, total |-> 0]

\* history: the window of a key as its callers see it. It starts with the
\* first use of the key and starts anew with the first use made windowMs or
\* more after its start
Window(h, config, t) ==
  IF h.start = -1 \/ t - h.start >= config.windowMs
  THEN [h EXCEPT !.start = t, !.admitted = 0]
  ELSE h

\* history: the window of a key on the clock alone, which the removal of the
\* bucket by cleanup() does not end: it starts with the first use of the key
\* and starts anew with the first use made windowMs or more after its start
ClockWindow(h, config, t) ==
  IF h.since = -1 \/ t - h.since >= config.windowMs
  THEN [h EXCEPT !.since = t, !.total = 0]
  ELSE h

\* the rate limiter leaves the other subsystems alone
RLOthers == UNCHANGED <<cbVars, ddVars, rtVars, sv, cmVars, orVars, stVars,
              clVars, plVars, auVars>>

RLIdle ==
  /\ buckets = EmptyMap
  /\ rlConfig = [k \in RLKeys |->
                   [maxRequests |-> MaxRequests, windowMs |-> WindowMs,
                    strategy |-> "sliding"]]
  /\ rlLast = NoRLOp
  /\ rlHist = [k \in RLKeys |-> NoWindow]
  /\ nextCleanup = RLCleanupIntervalMs
  /\ rlTicks = 0

\* checkLimit(key, config), and enforce(key, config), which throws
\* RateLimitError when checkLimit returns false and changes nothing more
RLCheckLimit(k) ==
  /\ LET config == rlConfig[k]
         b0 == getBucket(buckets, k, config, now)[k]
         r == checkLimit(buckets, k, config, 1, now)
         h == ClockWindow(Window(rlHist[k], config, now), config, now)
     IN  /\ buckets' = r.bs
         /\ rlLast' = [op |-> "check", key |-> k, allowed |-> r.ret,
                       removed |-> {}, used |-> b0.requestCount,
                       elapsed |-> now - b0.lastRefill]
         /\ rlHist' = [rlHist EXCEPT ![k] =
                         [h EXCEPT !.admitted = IF r.ret THEN @ + 1 ELSE @,
                                   !.total = IF r.ret THEN @ + 1 ELSE @,
                                   !.checked = now]]
  /\ UNCHANGED <<now, rlConfig, nextCleanup, rlTicks>>
  /\ RLOthers

\* getRemainingTokens(key, config): the bucket is created and refilled
RLGetRemainingTokens(k) ==
  /\ LET config == rlConfig[k]
         b1 == getBucket(buckets, k, config, now)
     IN  /\ buckets' = [b1 EXCEPT ![k] =
                          IF config.strategy = "sliding"
                          THEN refillSlidingWindow(b1[k], config, now)
                          ELSE refillFixedWindow(b1[k], config, now)]
         /\ rlHist' = [rlHist EXCEPT ![k] =
                         ClockWindow(Window(rlHist[k], config, now), config, now)]
  /\ rlLast' = NoRLOp
  /\ UNCHANGED <<now, rlConfig, nextCleanup, rlTicks>>
  /\ RLOthers

\* reset(key)
RLReset(k) ==
  /\ buckets' = Remove(buckets, k)
  /\ rlHist' = [rlHist EXCEPT ![k] = NoWindow]
  /\ rlLast' = NoRLOp
  /\ UNCHANGED <<now, rlConfig, nextCleanup, rlTicks>>
  /\ RLOthers

\* resetAll()
RLResetAll ==
  /\ buckets' = EmptyMap
  /\ rlHist' = [k \in RLKeys |-> NoWindow]
  /\ rlLast' = NoRLOp
  /\ UNCHANGED <<now, rlConfig, nextCleanup, rlTicks>>
  /\ RLOthers

\* the cleanup interval fires: cleanup()
RLCleanup ==
  /\ now = nextCleanup
  /\ LET removed == RLKeysToRemove(buckets, now)
     IN  /\ buckets' = [k \in DOMAIN buckets \ removed |-> buckets[k]]
         /\ rlLast' = [NoRLOp EXCEPT !.op = "cleanup", !.removed = removed]
         /\ rlHist' = [k \in RLKeys |->
                         IF k \in removed
                         THEN [NoWindow EXCEPT !.checked = rlHist[k].checked,
                                               !.since = rlHist[k].since,
                                               !.total = rlHist[k].total]
                         ELSE rlHist[k]]
  /\ nextCleanup' = nextCleanup + RLCleanupIntervalMs
  /\ UNCHANGED <<now, rlConfig, rlTicks>>
  /\ RLOthers

\* time passes within a cleanup interval
RLTick(d) ==
  /\ rlTicks < RLHorizon
  /\ now < nextCleanup
  /\ now' = IF now + d < nextCleanup THEN now + d ELSE nextCleanup
  /\ rlTicks' = rlTicks + 1
  /\ rlLast' = NoRLOp
  /\ UNCHANGED <<buckets, rlConfig, rlHist, nextCleanup>>
  /\ RLOthers

\* time passes up to the next firing of the cleanup interval
RLTickToCleanup ==
  /\ now < nextCleanup
  /\ nextCleanup <= RLMaxTime
  /\ now' = nextCleanup
  /\ rlLast' = NoRLOp
  /\ UNCHANGED <<buckets, rlConfig, rlHist, nextCleanup, rlTicks>>
  /\ RLOthers

RLNext ==
  \/ \E k \in RLKeys : RLCheckLimit(k)
  \/ \E k \in RLKeys : RLGetRemainingTokens(k)
  \/ \E k \in RLKeys : RLReset(k)
  \/ RLResetAll
  \/ RLCleanup
  \/ \E d \in RLSteps : RLTick(d)
  \/ RLTickToCleanup

-----------------------------------------------------------------------------
(* CacheManager.ts *)

\* largest ttlSeconds a caller passes
MaxTtl == 2
\* number of steps the clock may take within the check periods
CMHorizon == 3
\* number of check periods a behaviour may take
CMPeriods == 1

\* checkperiod of the NodeCache
CheckPeriodMs == 60000

CMMaxTime == CMPeriods * CheckPeriodMs

\* the steps of the clock within a check period
CMSteps == {1, 1000}

Tiers == {"memory", "localStorage", "sessionStorage"}

StorageTiers == {"localStorage", "sessionStorage"}

CMKeys == {"k1"}

\* the values that are cached: 0 is falsy, the others are truthy
CacheValues == {0, 1, 2}

Ttls == 1..MaxTtl

\* what get returns on a miss
NullValue == -1

\* NodeCache.set(key, value, ttl): the data holds the value and its expiry
NodeCacheSet(data, key, value, ttlSeconds, t) ==
  [k \in DOMAIN data \cup {key} |->
     IF k = key THEN [v |-> value, t |-> t + ttlSeconds * 1000] ELSE data[k]]

\* NodeCache._check(key, data): the entry is live
NodeCacheLive(data, key, t) == ~(data[key].t # 0 /\ data[key].t < t)

\* NodeCache.get(key): what it returns and the data it leaves; an expired
\* entry is deleted (deleteOnExpire)
NodeCacheGet(data, key, t) ==
  IF key \notin DOMAIN data THEN [ret |-> NullValue, found |-> FALSE, data |-> data]
  ELSE IF NodeCacheLive(data, key, t)
  THEN [ret |-> data[key].v, found |-> TRUE, data |-> data]
  ELSE [ret |-> NullValue, found |-> FALSE, data |-> Remove(data, key)]

\* JSON.stringify(entry) and JSON.parse(item) of a CacheEntry
Stringify(entry) == [json |-> entry]

Parse(item) == item.json

\* setToLocalStorage / setToSessionStorage: what it returns and the items it
\* leaves. accessCount is a statistic that is only ever written, and the
\* model leaves it out
setToStorage(items, win, key, value, ttlSeconds, t) ==
  IF ~win THEN [ret |-> FALSE, items |-> items]
  ELSE [ret |-> TRUE,
        items |-> [k \in DOMAIN items \cup {key} |->
                     IF k = key
                     THEN Stringify([value |-> value, ttl |-> ttlSeconds,
                                     createdAt |-> t, lastAccessed |-> t])
                     ELSE items[k]]]

\* getFromLocalStorage / getFromSessionStorage: what it returns and the
\* items it leaves; the local tier writes the access statistics back
getFromStorage(items, win, tier, key, t) ==
  IF ~win \/ key \notin DOMAIN items
  THEN [ret |-> NullValue, items |-> items]
  ELSE LET entry == Parse(items[key])
       IN  IF t > entry.createdAt + entry.ttl * 1000
           THEN [ret |-> NullValue, items |-> Remove(items, key)]
           ELSE IF tier = "localStorage"
           THEN [ret |-> entry.value,
                 items |-> [items EXCEPT ![key] =
                              Stringify([entry EXCEPT !.lastAccessed = t])]]
           ELSE [ret |-> entry.value, items |-> items]

\* value = this.memoryCache.get(key) || null
OrNull(found, value) == IF found /\ value # 0 THEN value ELSE NullValue

NoCMOp ==
  [op |-> "none", tier |-> "memory", key |-> "k1", ret |-> NullValue,
   ok |-> FALSE]

NoSet == [at |-> -1, ttl |-> 0, value |-> NullValue]

\* The tiers share no state: the callers of one behaviour pass one strategy.

\* the cache manager leaves the other subsystems alone
CMOthers == UNCHANGED <<cbVars, ddVars, rtVars, sv, rlVars, orVars, stVars,
              clVars, plVars, auVars>>

CMIdle ==
  /\ memoryCache = EmptyMap
  /\ storage = [tier \in StorageTiers |-> EmptyMap]
  /\ hasWindow = TRUE
  /\ cmTier = "memory"
  /\ cmLast = NoCMOp
  /\ cmHist = [tier \in Tiers |-> [k \in CMKeys |-> NoSet]]
  /\ nextCheck = CheckPeriodMs
  /\ cmTicks = 0

\* get(key, strategy)
CMGet(tier, key) ==
  /\ tier = cmTier
  /\ IF tier = "memory"
     THEN LET r == NodeCacheGet(memoryCache, key, now)
          IN  /\ memoryCache' = r.data
              /\ cmLast' = [NoCMOp EXCEPT !.op = "get", !.tier = tier,
                                          !.key = key,
                                          !.ret = OrNull(r.found, r.ret)]
              /\ UNCHANGED storage
     ELSE LET r == getFromStorage(storage[tier], hasWindow, tier, key, now)
          IN  /\ storage' = [storage EXCEPT ![tier] = r.items]
              /\ cmLast' = [NoCMOp EXCEPT !.op = "get", !.tier = tier,
                                          !.key = key, !.ret = r.ret]
              /\ UNCHANGED memoryCache
  /\ UNCHANGED <<now, hasWindow, cmTier, cmHist, nextCheck, cmTicks>>
  /\ CMOthers

\* set(key, value, ttlSeconds, strategy)
CMSet(tier, key, value, ttlSeconds) ==
  /\ tier = cmTier
  /\ IF tier = "memory"
     THEN /\ memoryCache' = NodeCacheSet(memoryCache, key, value, ttlSeconds, now)
          /\ cmLast' = [NoCMOp EXCEPT !.op = "set", !.tier = tier,
                                      !.key = key, !.ok = TRUE]
          /\ cmHist' = [cmHist EXCEPT ![tier][key] =
                          [at |-> now, ttl |-> ttlSeconds, value |-> value]]
          /\ UNCHANGED storage
     ELSE LET r == setToStorage(storage[tier], hasWindow, key, value,
                                ttlSeconds, now)
          IN  /\ storage' = [storage EXCEPT ![tier] = r.items]
              /\ cmLast' = [NoCMOp EXCEPT !.op = "set", !.tier = tier,
                                          !.key = key, !.ok = r.ret]
              /\ cmHist' = IF r.ret
                           THEN [cmHist EXCEPT ![tier][key] =
                                   [at |-> now, ttl |-> ttlSeconds,
                                    value |-> value]]
                           ELSE cmHist
              /\ UNCHANGED memoryCache
  /\ UNCHANGED <<now, hasWindow, cmTier, nextCheck, cmTicks>>
  /\ CMOthers

\* delete(key, strategy)
CMDelete(tier, key) ==
  /\ tier = cmTier
  /\ IF tier = "memory"
     THEN /\ memoryCache' = Remove(memoryCache, key)
          /\ cmLast' = [NoCMOp EXCEPT !.op = "delete", !.tier = tier,
                                      !.key = key,
                                      !.ok = key \in DOMAIN memoryCache]
          /\ cmHist' = [cmHist EXCEPT ![tier][key] = NoSet]
          /\ UNCHANGED storage
     ELSE /\ storage' = IF hasWindow
                        THEN [storage EXCEPT ![tier] = Remove(@, key)]
                        ELSE storage
          /\ cmLast' = [NoCMOp EXCEPT !.op = "delete", !.tier = tier,
                                      !.key = key, !.ok = hasWindow]
          /\ cmHist' = IF hasWindow
                       THEN [cmHist EXCEPT ![tier][key] = NoSet]
                       ELSE cmHist
          /\ UNCHANGED memoryCache
  /\ UNCHANGED <<now, hasWindow, cmTier, nextCheck, cmTicks>>
  /\ CMOthers

\* clear(strategy?): the tiers named, every tier if none is named
CMClear(tiers) ==
  /\ cmTier \in tiers
  /\ memoryCache' = IF "memory" \in tiers THEN EmptyMap ELSE memoryCache
  /\ storage' = [tier \in StorageTiers |->
                   IF tier \in tiers /\ hasWindow THEN EmptyMap
                   ELSE storage[tier]]
  /\ cmHist' = [tier \in Tiers |->
                  IF tier \in tiers /\ (tier = "memory" \/ hasWindow)
                  THEN [k \in CMKeys |-> NoSet]
                  ELSE cmHist[tier]]
  /\ cmLast' = NoCMOp
  /\ UNCHANGED <<now, hasWindow, cmTier, nextCheck, cmTicks>>
  /\ CMOthers

\* the checkperiod timer of the NodeCache fires: the expired entries are
\* deleted
CMCheckData ==
  /\ now = nextCheck
  /\ memoryCache' = [k \in {x \in DOMAIN memoryCache :
                               NodeCacheLive(memoryCache, x, now)} |->
                       memoryCache[k]]
  /\ nextCheck' = nextCheck + CheckPeriodMs
  /\ cmLast' = NoCMOp
  /\ UNCHANGED <<now, storage, hasWindow, cmTier, cmHist, cmTicks>>
  /\ CMOthers

\* time passes within a check period
CMTick(d) ==
  /\ cmTicks < CMHorizon
  /\ now < nextCheck
  /\ now' = IF now + d < nextCheck THEN now + d ELSE nextCheck
  /\ cmTicks' = cmTicks + 1
  /\ cmLast' = NoCMOp
  /\ UNCHANGED <<memoryCache, storage, hasWindow, cmTier, cmHist, nextCheck>>
  /\ CMOthers

\* time passes up to the next firing of the checkperiod timer
CMTickToCheck ==
  /\ now < nextCheck
  /\ nextCheck <= CMMaxTime
  /\ now' = nextCheck
  /\ cmLast' = NoCMOp
  /\ UNCHANGED <<memoryCache, storage, hasWindow, cmTier, cmHist, nextCheck,
               cmTicks>>
  /\ CMOthers

CMNext ==
  \/ \E tier \in Tiers, key \in CMKeys : CMGet(tier, key)
  \/ \E tier \in Tiers, key \in CMKeys, value \in CacheValues, ttl \in Ttls :
       CMSet(tier, key, value, ttl)
  \/ \E tier \in Tiers, key \in CMKeys : CMDelete(tier, key)
  \/ \E tiers \in {{t} : t \in Tiers} \cup {Tiers} : CMClear(tiers)
  \/ CMCheckData
  \/ \E d \in CMSteps : CMTick(d)
  \/ CMTickToCheck

-----------------------------------------------------------------------------
(* ToolOrchestrator.ts, SystemToolExecutor.ts and ToolExecutor.base.ts *)

\* largest number of tool ids handed to a run
MaxIds == 3
\* largest options.maxConcurrency handed to executeParallel
MaxConcurrency == 2

\* the tools of the registry: a system tool that assigns a value at a path of
\* the state, and a server tool without assignments
ORTools ==
  { [id |-> "assignMake", type |-> "system", op |-> "assign", path |-> "make",
     value |-> "Toyota"],
    [id |-> "fetchModel", type |-> "server", op |-> "", path |-> "",
     value |-> ""] }

ORRegistered == {t.id : t \in ORTools}

\* the ids the callers pass: "missing" is not registered
ORToolIds == ORRegistered \cup {"missing"}

ORTool(id) == CHOOSE t \in ORTools : t.id = id

IdLists == UNION {[1..n -> ORToolIds] : n \in 0..MaxIds}

\* the state of the context the callers pass
ORStates == {EmptyMap, [f \in {"make"} |-> "Honda"]}

\* what the server tool does: its request succeeds or fails
OROutcomes == {"ok", "failed"}

\* JSONPathProcessor.getValue(obj, path)
getValue(obj, path) == IF path \in DOMAIN obj THEN obj[path] ELSE "undefined"

\* { ...state, ...data }
Spread(state, data) ==
  [f \in DOMAIN state \cup DOMAIN data |->
     IF f \in DOMAIN data THEN data[f] ELSE state[f]]

\* an IToolResult, with the id of the tool whose execution made it
okResult(id, data) ==
  [tool |-> id, success |-> TRUE, hasData |-> TRUE, data |-> data, error |-> ""]

errorResult(id, error) ==
  [tool |-> id, success |-> FALSE, hasData |-> FALSE, data |-> EmptyMap,
   error |-> error]

\* an element of new Array(n) that has not been written
NoResult == errorResult("", "")

\* SystemToolExecutor.executeAssign(config, context): the value is set in a
\* clone of context.state that is dropped; what is returned describes the
\* assignment
executeAssign(config, state) ==
  [f \in {"operation", "path", "value", "previousValue"} |->
     IF f = "operation" THEN "assign"
     ELSE IF f = "path" THEN config.path
     ELSE IF f = "value" THEN config.value
     ELSE getValue(state, config.path)]

\* executeTool(toolId, context): whether it throws, and the result it
\* returns. BaseToolExecutor.execute turns every error of an executor into a
\* failed result
executeTool(toolId, state, outcome) ==
  IF toolId \notin ORRegistered
  THEN [threw |-> TRUE, error |-> "Tool not found", result |-> NoResult]
  ELSE IF ORTool(toolId).type = "system"
  THEN [threw |-> FALSE, error |-> "",
        result |-> okResult(toolId, executeAssign(ORTool(toolId), state))]
  ELSE IF outcome = "ok"
  THEN [threw |-> FALSE, error |-> "",
        result |-> okResult(toolId, [f \in {"model"} |-> "Camry"])]
  ELSE [threw |-> FALSE, error |-> "",
        result |-> errorResult(toolId, "NetworkError")]

IdleSeq ==
  [pc |-> "idle", ids |-> <<>>, continueOnError |-> FALSE, i |-> 1,
   ctx |-> EmptyMap, results |-> <<>>, seen |-> <<>>]

IdlePar ==
  [pc |-> "idle", ids |-> <<>>, maxConcurrency |-> 5, i |-> 1,
   results |-> <<>>, pending |-> {}, order |-> <<>>]

\* the orchestrator leaves the other subsystems alone
OROthers ==
  UNCHANGED <<now, cbVars, ddVars, rtVars, sv, rlVars, cmVars, stVars,
              clVars, plVars, auVars>>

ORIdle ==
  /\ orSeq = IdleSeq
  /\ orPar = IdlePar

\* executeSequence, the end of an iteration: the next tool, or the return
SeqAdvance(run) ==
  [run EXCEPT !.i = @ + 1,
              !.pc = IF run.i + 1 > Len(run.ids) THEN "returned" ELSE "running"]

\* executeSequence, the catch block: the error becomes a failed result, and
\* the loop ends unless continueOnError is set
SeqCatch(run, error) ==
  LET r1 == [run EXCEPT !.results = Append(@, errorResult(run.ids[run.i], error))]
  IN  IF ~run.continueOnError THEN [r1 EXCEPT !.pc = "returned"]
      ELSE SeqAdvance(r1)

\* executeSequence, the try block after executeTool has returned
SeqResult(run, result) ==
  SeqAdvance([run EXCEPT
                !.results = Append(@, result),
                !.ctx = IF result.success /\ result.hasData
                        THEN Spread(@, result.data) ELSE @])

\* executeSequence(toolIds, initialContext, options)
ORSeqStart(ids, continueOnError, state) ==
  /\ orSeq.pc = "idle"
  /\ orPar.pc = "idle"
  /\ orSeq' = [IdleSeq EXCEPT !.pc = IF Len(ids) = 0 THEN "returned"
                                     ELSE "running",
                              !.ids = ids,
                              !.continueOnError = continueOnError,
                              !.ctx = state]
  /\ UNCHANGED orPar
  /\ OROthers

\* one iteration of the loop of executeSequence
ORSeqStep(outcome) ==
  /\ orSeq.pc = "running"
  /\ LET r == executeTool(orSeq.ids[orSeq.i], orSeq.ctx, outcome)
         run == [orSeq EXCEPT !.seen = Append(@, orSeq.ctx)]
     IN  orSeq' = IF r.threw THEN SeqCatch(run, r.error)
                  ELSE SeqResult(run, r.result)
  /\ UNCHANGED orPar
  /\ OROthers

\* the caller has the results of the sequence
ORSeqDone ==
  /\ orSeq.pc = "returned"
  /\ orSeq' = IdleSeq
  /\ UNCHANGED orPar
  /\ OROthers

\* faulty variant: the results are collected in the order of completion
ParStore_push(results, index, result, order) ==
  [results EXCEPT ![Len(order) + 1] = result]

\* results[index] = result
ParStore(results, index, result, order) ==
  [results EXCEPT ![index] = result]

\* faulty variant: the error of executeTool is not caught
ParCatch_rethrow(run, index, error) == [run EXCEPT !.pc = "raised"]

\* executeWithIndex, the catch block
ParCatch(run, index, error) ==
  [run EXCEPT !.results =
     ParStore(@, index, errorResult(run.ids[index], error), run.order)]

\* the indexes of the batch that starts at index i
Batch(ids, i, maxConcurrency) ==
  {k \in 1..Len(ids) : i <= k /\ k < i + maxConcurrency}

\* executeParallel(toolIds, context, options): the first batch is started;
\* maxConcurrency 0 stands for an absent or zero option
ORParStart(ids, maxConcurrency) ==
  /\ orSeq.pc = "idle"
  /\ orPar.pc = "idle"
  /\ LET mc == IF maxConcurrency = 0 THEN 5 ELSE maxConcurrency
     IN  orPar' = [IdlePar EXCEPT
                     !.pc = IF Len(ids) = 0 THEN "returned" ELSE "running",
                     !.ids = ids,
                     !.maxConcurrency = mc,
                     !.results = [k \in 1..Len(ids) |-> NoResult],
                     !.pending = Batch(ids, 1, mc)]
  /\ UNCHANGED orSeq
  /\ OROthers

\* an executeWithIndex of the batch completes; with the last one Promise.all
\* resolves, and the next batch is started or the results are returned
ORParComplete(index, outcome) ==
  /\ orPar.pc = "running"
  /\ index \in orPar.pending
  /\ LET r == executeTool(orPar.ids[index], EmptyMap, outcome)
         r1 == IF r.threw THEN ParCatch(orPar, index, r.error)
               ELSE [orPar EXCEPT !.results =
                       ParStore(@, index, r.result, orPar.order)]
         r2 == [r1 EXCEPT !.pending = @ \ {index},
                          !.order = Append(@, index)]
         next == r2.i + r2.maxConcurrency
     IN  orPar' = IF r2.pc # "running" \/ r2.pending # {} THEN r2
                  ELSE IF next > Len(r2.ids) THEN [r2 EXCEPT !.pc = "returned"]
                  ELSE [r2 EXCEPT !.i = next,
                                  !.pending = Batch(r2.ids, next,
                                                    r2.maxConcurrency)]
  /\ UNCHANGED orSeq
  /\ OROthers

\* the caller has the results of the parallel run, or its error
ORParDone ==
  /\ orPar.pc \in {"returned", "raised"}
  /\ orPar' = IdlePar
  /\ UNCHANGED orSeq
  /\ OROthers

ORNext ==
  \/ \E ids \in IdLists, c \in BOOLEAN, state \in ORStates :
       ORSeqStart(ids, c, state)
  \/ \E outcome \in OROutcomes : ORSeqStep(outcome)
  \/ ORSeqDone
  \/ \E ids \in IdLists, mc \in 0..MaxConcurrency : ORParStart(ids, mc)
  \/ \E index \in 1..MaxIds, outcome \in OROutcomes :
       ORParComplete(index, outcome)
  \/ ORParDone

-----------------------------------------------------------------------------
(* StateManager and StateStore *)

MaxHistorySize == 2    \* config.maxHistorySize of the StateStore (default 1000)
MaxSnapshotSize == 1   \* config.maxSnapshotSize of the StateStore (default 50)
MaxEvents == 3         \* events a behaviour generates
STHorizon == 1         \* milliseconds that pass in a behaviour of the state layer

Strings == {"Toyota", "Honda"}
FieldPaths == {"$.make"}
RootPath == "$"
SnapshotIds == {"a", "b"}

\* a JSON value: a string, an object given by its properties, undefined; and
\* a reference to an object of the heap
Str(s) == [kind |-> "string", s |-> s, o |-> EmptyMap, r |-> 0]
Obj(o) == [kind |-> "object", s |-> "", o |-> o, r |-> 0]
Ref(r) == [kind |-> "ref", s |-> "", o |-> EmptyMap, r |-> r]
UndefinedValue == [kind |-> "undefined", s |-> "", o |-> EmptyMap, r |-> 0]

RootObjects == {EmptyMap, [f \in {"make"} |-> Str("Toyota")]}

\* the properties of an object value
DocOf(value) == value.o

\* the value that a reference or a value stands for, objects followed
RECURSIVE Deep(_, _)
Deep(h, v) ==
  IF v.kind = "ref"
  THEN Obj([f \in DOMAIN h[v.r] |-> Deep(h, h[v.r][f])])
  ELSE v

\* the object value that the document behind a reference is
ValueOf(h, r) == Deep(h, Ref(r))

\* the patches that callers pass: the values of the root path are objects
Patches ==
  {[op |-> "replace", path |-> p, value |-> Str(s)] :
     p \in FieldPaths, s \in Strings}
  \cup {[op |-> "replace", path |-> RootPath, value |-> Obj(o)] :
          o \in RootObjects}
  \cup {[op |-> "remove", path |-> p, value |-> UndefinedValue] :
          p \in FieldPaths}

\* a patch whose operation is none of add, replace, remove
MovePatch == [op |-> "move", path |-> "$.make", value |-> UndefinedValue]

ReplaceMake == [op |-> "replace", path |-> "$.make", value |-> Str("Toyota")]

ReplaceHonda == [op |-> "replace", path |-> "$.make", value |-> Str("Honda")]

\* the lists of patches of one call
PatchLists ==
  {<<p>> : p \in Patches}
  \cup {<<MovePatch>>, <<ReplaceMake, MovePatch>>, <<ReplaceMake, ReplaceHonda>>}

\* path.substring(2) of a path that starts with '$.', else the path
convertJSONPathToLodashPath(path) ==
  CASE path = "$.make" -> "make"
    [] path = "$.makeYear" -> "makeYear"
    [] OTHER -> path

\* the least reference that the heap does not hold
NextRef(h) ==
  CHOOSE n \in 1..(Cardinality(DOMAIN h) + 1) :
    n \notin DOMAIN h /\ \A m \in 1..(n - 1) : m \in DOMAIN h

\* a new object on the heap, or an object of the heap with new properties
Put(h, r, doc) == [x \in DOMAIN h \cup {r} |-> IF x = r THEN doc ELSE h[x]]

\* _.set(obj, path, value) for a path of one property
LodashSet(obj, path, value) ==
  [f \in DOMAIN obj \cup {path} |-> IF f = path THEN value ELSE obj[f]]

\* _.unset(obj, path) for a path of one property
LodashUnset(obj, path) == [f \in DOMAIN obj \ {path} |-> obj[f]]

\* _.cloneDeep(obj): a new object, and new objects for the objects it holds
RECURSIVE cloneDeep(_, _)
RECURSIVE CloneNested(_, _, _)
CloneNested(h, n, fs) ==
  IF fs = {} THEN [heap |-> h, ref |-> n]
  ELSE LET f == CHOOSE x \in fs : TRUE
           c == cloneDeep(h, h[n][f].r)
       IN  CloneNested([c.heap EXCEPT ![n][f] = Ref(c.ref)], n, fs \ {f})

cloneDeep(h, r) ==
  LET n == NextRef(h)
  IN  CloneNested(Put(h, n, h[r]), n,
                  {f \in DOMAIN h[r] : h[r][f].kind = "ref"})


\* the caller builds the values of the patches: an object value is a new
\* object, and the patch holds the reference to it
RECURSIVE Materialise(_, _, _)
Materialise(h, patches, i) ==
  IF i > Len(patches) THEN [heap |-> h, patches |-> patches]
  ELSE IF patches[i].value.kind = "object"
  THEN LET n == NextRef(h)
       IN  Materialise(Put(h, n, DocOf(patches[i].value)),
                       [patches EXCEPT ![i].value = Ref(n)], i + 1)
  ELSE Materialise(h, patches, i + 1)

\* JSONPathProcessor.setValue: both branches set the lodash path, in place
setValue(h, obj, path, value) ==
  [h EXCEPT ![obj] = LodashSet(@, convertJSONPathToLodashPath(path), value)]

\* JSONPathProcessor.deletePath
deletePath(h, obj, path) ==
  [h EXCEPT ![obj] = LodashUnset(@, convertJSONPathToLodashPath(path))]

\* StateManager.getValueAtPath, JSONPathProcessor.getValue: JSONPath for a
\* path that starts with '$.', _.get for any other path, the root path '$'
\* included
getValueAtPath(h, state, path) ==
  LET key == convertJSONPathToLodashPath(path)
  IN  IF key \in DOMAIN h[state] THEN h[state][key] ELSE UndefinedValue

KnownOps == {"add", "replace", "remove"}

\* StateManager.applyPatch, for the known operations
managerApplyPatch(h, state, patch) ==
  IF patch.op \in {"add", "replace"}
  THEN setValue(h, state, patch.path, patch.value)
  ELSE deletePath(h, state, patch.path)

\* StateStore.setValueAtPath: the root path makes the value the document
setValueAtPath(h, state, path, value) ==
  IF path = "$" \/ path = "" THEN [heap |-> h, state |-> value.r]
  ELSE [heap |-> [h EXCEPT ![state] =
                    LodashSet(@, convertJSONPathToLodashPath(path), value)],
        state |-> state]

\* StateStore.deleteValueAtPath
deleteValueAtPath(h, state, path) ==
  IF path = "$" \/ path = ""
  THEN LET n == NextRef(h) IN [heap |-> Put(h, n, EmptyMap), state |-> n]
  ELSE [heap |-> [h EXCEPT ![state] =
                    LodashUnset(@, convertJSONPathToLodashPath(path))],
        state |-> state]

\* StateStore.applyPatch, for the known operations
applyPatch(h, state, patch) ==
  IF patch.op \in {"add", "replace"}
  THEN setValueAtPath(h, state, patch.path, patch.value)
  ELSE deleteValueAtPath(h, state, patch.path)

\* patches.forEach(patch => this.applyPatch(patch)) of the store: the patches
\* before the first unknown operation are applied, then the call throws
RECURSIVE ApplyAll(_, _, _, _)
ApplyAll(h, state, patches, i) ==
  IF i > Len(patches) THEN [heap |-> h, state |-> state, threw |-> FALSE]
  ELSE IF patches[i].op \notin KnownOps
  THEN [heap |-> h, state |-> state, threw |-> TRUE]
  ELSE LET a == applyPatch(h, state, patches[i])
       IN  ApplyAll(a.heap, a.state, patches, i + 1)

\* patches.forEach(patch => this.applyPatch(patch)) of the manager
RECURSIVE ManagerApplyAll(_, _, _, _)
ManagerApplyAll(h, state, patches, i) ==
  IF i > Len(patches) THEN [heap |-> h, threw |-> FALSE]
  ELSE IF patches[i].op \notin KnownOps THEN [heap |-> h, threw |-> TRUE]
  ELSE ManagerApplyAll(managerApplyPatch(h, state, patches[i]), state,
                       patches, i + 1)

\* StateManager.validatePatches does not throw
validatePatches(patches) ==
  \A i \in 1..Len(patches) :
    /\ patches[i].op # "" /\ patches[i].path # ""
    /\ patches[i].op \in KnownOps
    /\ patches[i].op \in {"add", "replace"}
         => patches[i].value.kind # "undefined"

\* faulty variant: the history grows without a limit
addToHistory_unlimited(h, event) == Append(h, event)

\* StateStore.addToHistory: push, then shift when the limit is exceeded
addToHistory(h, event) ==
  LET pushed == Append(h, event)
  IN  IF Len(pushed) > MaxHistorySize THEN Tail(pushed) ELSE pushed

\* the StateEvent of applyPatches, and that of restoreSnapshot: the patches
\* are the array of the caller, and the value of the patch of the restore
\* event is the document of the store
StateEvent(counter, patches) ==
  [id |-> counter, patches |-> patches, type |-> "patches"]

RestoreEvent(counter, state) ==
  [id |-> counter,
   patches |-> <<[op |-> "replace", path |-> RootPath, value |-> Ref(state)]>>,
   type |-> "snapshot_restore"]

\* an event with the values that its patches stand for
DeepEvent(h, event) ==
  [event EXCEPT !.patches =
     [j \in 1..Len(event.patches) |->
        [event.patches[j] EXCEPT !.value = Deep(h, @)]]]

\* the events as they were when they were appended, for the events that the
\* history holds
Logged(old, hist, h) ==
  [id \in {hist[i].id : i \in 1..Len(hist)} |->
     IF id \in DOMAIN old THEN old[id]
     ELSE DeepEvent(h, hist[CHOOSE i \in 1..Len(hist) : hist[i].id = id])]

\* the characters of a path
Chars(path) ==
  CASE path = "$" -> <<"$">>
    [] path = "$.make" -> <<"$", ".", "m", "a", "k", "e">>
    [] path = "$.makeYear" -> <<"$", ".", "m", "a", "k", "e", "Y", "e", "a", "r">>
    [] OTHER -> <<>>

\* String.prototype.startsWith
startsWith(str, prefix) ==
  Len(prefix) <= Len(str) /\ SubSeq(str, 1, Len(prefix)) = prefix

\* StateManager.pathMatches
pathMatches(subscriptionPath, changedPath) ==
  \/ startsWith(Chars(changedPath), Chars(subscriptionPath))
  \/ startsWith(Chars(subscriptionPath), Chars(changedPath))

\* StateManager.notifySubscribersForPath: the calls of the callbacks of the
\* subscriptions from the k-th on, with the values they are handed
RECURSIVE notifySubscribersForPath(_, _, _, _, _, _)
notifySubscribersForPath(h, state, subs, changedPath, newValue, k) ==
  IF k > Len(subs) THEN <<>>
  ELSE LET rest == notifySubscribersForPath(h, state, subs, changedPath,
                                            newValue, k + 1)
           currentValue == getValueAtPath(h, state, subs[k])
           previousValue == newValue
       IN  IF pathMatches(subs[k], changedPath)
           THEN <<[path |-> subs[k], changed |-> changedPath,
                   value |-> Deep(h, currentValue),
                   previous |-> Deep(h, previousValue)]>> \o rest
           ELSE rest

\* StateManager.notifySubscribers
RECURSIVE notifySubscribers(_, _, _, _, _)
notifySubscribers(h, state, subs, patches, i) ==
  IF i > Len(patches) THEN <<>>
  ELSE notifySubscribersForPath(h, state, subs, patches[i].path,
                                patches[i].value, 1)
       \o notifySubscribers(h, state, subs, patches, i + 1)

\* StateManager.notifyAllSubscribers: previous is the copy of the document
\* taken before the restore
RECURSIVE notifyAllSubscribers(_, _, _, _, _, _)
notifyAllSubscribers(hOld, previousState, h, newState, subs, k) ==
  IF k > Len(subs) THEN <<>>
  ELSE LET rest == notifyAllSubscribers(hOld, previousState, h, newState,
                                        subs, k + 1)
           previousValue ==
             Deep(hOld, getValueAtPath(hOld, previousState, subs[k]))
           newValue == Deep(h, getValueAtPath(h, newState, subs[k]))
       IN  IF previousValue # newValue
           THEN <<[path |-> subs[k], changed |-> subs[k],
                   value |-> newValue, previous |-> previousValue]>> \o rest
           ELSE rest

\* the index of the snapshot of an id in the Map of the snapshots, 0 if none
SnapshotIndex(snaps, id) ==
  IF \E i \in 1..Len(snaps) : snaps[i].id = id
  THEN CHOOSE i \in 1..Len(snaps) : snaps[i].id = id
  ELSE 0

\* a sequence without its i-th element
RemoveAt(seq, i) ==
  [j \in 1..(Len(seq) - 1) |-> IF j < i THEN seq[j] ELSE seq[j + 1]]

\* Array.from(snapshots.entries()).sort by timestamp, [0]: the sort is
\* stable, so the first of the entries with the least timestamp
OldestSnapshot(snaps) ==
  CHOOSE i \in 1..Len(snaps) :
    /\ \A j \in 1..Len(snaps) : snaps[i].timestamp <= snaps[j].timestamp
    /\ \A j \in 1..(i - 1) : snaps[j].timestamp > snaps[i].timestamp

\* StateStore.createSnapshot: Map.set, then the oldest snapshot is deleted
\* when the limit is exceeded
createSnapshot(snaps, snapshot) ==
  LET i == SnapshotIndex(snaps, snapshot.id)
      set == IF i = 0 THEN Append(snaps, snapshot)
             ELSE [snaps EXCEPT ![i] = snapshot]
  IN  IF Len(set) > MaxSnapshotSize
      THEN RemoveAt(set, OldestSnapshot(set))
      ELSE set

\* the references that an object holds, in the order of its properties
RECURSIVE NestedRefs(_, _, _)
NestedRefs(h, r, fields) ==
  IF fields = <<>> THEN <<>>
  ELSE LET f == Head(fields)
           here == IF f \in DOMAIN h[r] /\ h[r][f].kind = "ref"
                   THEN <<h[r][f].r>> ELSE <<>>
       IN  here \o NestedRefs(h, r, Tail(fields))

\* the objects reached from a sequence of references, in the order in which
\* they are first met
RECURSIVE Visit(_, _, _)
Visit(h, todo, seen) ==
  IF todo = <<>> THEN seen
  ELSE IF \E k \in 1..Len(seen) : seen[k] = Head(todo)
  THEN Visit(h, Tail(todo), seen)
  ELSE Visit(h, NestedRefs(h, Head(todo), <<"$", "make", "makeYear">>)
                  \o Tail(todo),
             Append(seen, Head(todo)))

\* the references that the patches of an event hold, in their order
RECURSIVE PatchRefs(_, _)
PatchRefs(patches, j) ==
  IF j > Len(patches) THEN <<>>
  ELSE (IF patches[j].value.kind = "ref" THEN <<patches[j].value.r>>
        ELSE <<>>) \o PatchRefs(patches, j + 1)

RECURSIVE HistoryRefs(_, _)
HistoryRefs(hist, i) ==
  IF i > Len(hist) THEN <<>>
  ELSE PatchRefs(hist[i].patches, 1) \o HistoryRefs(hist, i + 1)

\* the state layer with the objects that it reaches numbered in the order in
\* which they are met from the manager, the store, the snapshots and the
\* events; the objects that nothing refers to any more are dropped
CanonBy(m, order) ==
  LET pos(r) == CHOOSE k \in 1..Len(order) : order[k] = r
      val(v) == IF v.kind = "ref" THEN Ref(pos(v.r)) ELSE v
  IN  [heap |-> [k \in 1..Len(order) |->
                   [f \in DOMAIN m.heap[order[k]] |->
                      val(m.heap[order[k]][f])]],
       sm |-> pos(m.sm),
       st |-> pos(m.st),
       snaps |-> [i \in 1..Len(m.snaps) |->
                    [m.snaps[i] EXCEPT !.state = pos(@)]],
       hist |-> [i \in 1..Len(m.hist) |->
                   [m.hist[i] EXCEPT !.patches =
                      [j \in 1..Len(m.hist[i].patches) |->
                         [m.hist[i].patches[j] EXCEPT !.value = val(@)]]]]]

Canon(m) ==
  CHOOSE c \in {CanonBy(m, order) :
                  order \in {Visit(m.heap,
                                   <<m.sm, m.st>>
                                     \o [i \in 1..Len(m.snaps) |->
                                           m.snaps[i].state]
                                     \o HistoryRefs(m.hist, 1),
                                   <<>>)}} : TRUE

\* the state layer after an operation
STCommit(h, sm, st, snaps, hist) ==
  \E c \in {Canon([heap |-> h, sm |-> sm, st |-> st, snaps |-> snaps,
                   hist |-> hist])} :
      /\ heap' = c.heap
      /\ smState' = c.sm
      /\ stState' = c.st
      /\ snapshots' = c.snaps
      /\ history' = c.hist
      /\ logged' = Logged(logged, c.hist, c.heap)

NoSTOp ==
  [op |-> "none", patches |-> <<>>, id |-> "", threw |-> FALSE,
   read |-> UndefinedValue, before |-> 0, notes |-> <<>>, replays |-> 0]

\* the record of an operation that acts in the current state; it carries the
\* number of replays of the event log made so far
STOp(op) ==
  [NoSTOp EXCEPT !.op = op, !.before = Len(history),
                 !.replays = stLast.replays]

StoreConfigs == [enableValidation : BOOLEAN]

\* the subscriptions that the host has made with subscribeToPath
HostSubscriptions == <<"$", "$.make", "$.makeYear">>

\* the state layer leaves the other subsystems alone
STOthers ==
  UNCHANGED <<cbVars, ddVars, rtVars, sv, rlVars, cmVars, orVars, clVars, plVars, auVars>>

\* the state layer after construction but for its configuration
STStart ==
  /\ heap = <<EmptyMap, EmptyMap>>
  /\ smState = 1
  /\ stState = 2
  /\ history = <<>>
  /\ eventCounter = 0
  /\ snapshots = <<>>
  /\ subscriptions = HostSubscriptions
  /\ logged = EmptyMap
  /\ ckptDoc = EmptyMap
  /\ stLast = NoSTOp

STIdle ==
  /\ STStart
  /\ stConfig = [enableValidation |-> FALSE]

\* StateManager.patchState(patches) with the applyPatches of the store, and
\* the read of the path of the first patch that the caller makes next
STPatchState(templates) ==
  /\ eventCounter < MaxEvents
  /\ \E m \in {Materialise(heap, templates, 1)} :
     \E mg \in {ManagerApplyAll(m.heap, smState, m.patches, 1)} :
     \E sa \in {ApplyAll(mg.heap, stState, m.patches, 1)} :
     LET patches == m.patches
         rejected == stConfig.enableValidation /\ ~validatePatches(patches)
         threw == rejected \/ mg.threw
         h1 == IF rejected THEN heap ELSE IF mg.threw THEN mg.heap ELSE sa.heap
     IN  /\ STCommit(h1, smState, IF threw THEN stState ELSE sa.state,
                     snapshots,
                     IF threw THEN history
                     ELSE addToHistory(history,
                                       StateEvent(eventCounter + 1, patches)))
         /\ eventCounter' = IF threw THEN eventCounter ELSE eventCounter + 1
         /\ stLast' =
              [STOp("patchState") EXCEPT
                 !.patches = templates,
                 !.threw = threw,
                 !.read = Deep(h1, getValueAtPath(h1, smState,
                                                  templates[1].path)),
                 !.notes = IF threw THEN <<>>
                           ELSE notifySubscribers(h1, smState, subscriptions,
                                                  patches, 1)]
  /\ UNCHANGED <<now, subscriptions, stConfig, ckptDoc>>
  /\ STOthers

\* StateManager.setState(state): the copy of the state becomes the document
\* of the manager and, as the value of a replace patch of the root, that of
\* the store
STSetState(state) ==
  /\ eventCounter < MaxEvents
  /\ LET n == NextRef(heap)
         h1 == Put(heap, n, state)
         patches == IF ValueOf(heap, smState) # Obj(state)
                    THEN <<[op |-> "replace", path |-> RootPath,
                            value |-> Ref(n)]>>
                    ELSE <<>>
         sa == ApplyAll(h1, stState, patches, 1)
     IN  /\ STCommit(sa.heap, n, sa.state, snapshots,
                     IF patches = <<>> THEN history
                     ELSE addToHistory(history,
                                       StateEvent(eventCounter + 1, patches)))
         /\ eventCounter' = IF patches = <<>> THEN eventCounter
                            ELSE eventCounter + 1
         /\ stLast' =
              [STOp("setState") EXCEPT
                 !.patches = [j \in 1..Len(patches) |->
                                [patches[j] EXCEPT !.value = Obj(state)]],
                 !.notes = notifySubscribers(sa.heap, n, subscriptions,
                                             patches, 1)]
  /\ UNCHANGED <<now, subscriptions, stConfig, ckptDoc>>
  /\ STOthers

\* StateManager.createCheckpoint(id): createSnapshot of the store
STCreateCheckpoint(id) ==
  /\ LET c == cloneDeep(heap, stState)
         snapshot == [id |-> id, state |-> c.ref, timestamp |-> now]
         snaps == createSnapshot(snapshots, snapshot)
     IN  /\ STCommit(c.heap, smState, stState, snaps, history)
         /\ ckptDoc' =
              [k \in ({snaps[i].id : i \in 1..Len(snaps)} \cap DOMAIN ckptDoc)
                       \cup {id} |->
                 IF k = id THEN ValueOf(heap, smState) ELSE ckptDoc[k]]
  /\ stLast' = [STOp("createCheckpoint") EXCEPT !.id = id]
  /\ UNCHANGED <<now, eventCounter, subscriptions, stConfig>>
  /\ STOthers

\* StateManager.restoreCheckpoint(id): restoreSnapshot of the store, then the
\* manager takes a copy of the document of the store and notifies the
\* subscribers; an unknown id throws
STRestoreCheckpoint(id) ==
  /\ eventCounter < MaxEvents
  /\ LET i == SnapshotIndex(snapshots, id)
     IN  IF i = 0
         THEN /\ stLast' = [STOp("restoreCheckpoint") EXCEPT
                              !.id = id, !.threw = TRUE]
              /\ UNCHANGED <<heap, smState, stState, snapshots, history,
                             eventCounter, logged>>
         ELSE LET c1 == cloneDeep(heap, snapshots[i].state)
                  c2 == cloneDeep(c1.heap, c1.ref)
              IN  /\ STCommit(c2.heap, c2.ref, c1.ref, snapshots,
                              addToHistory(history,
                                           RestoreEvent(eventCounter + 1,
                                                        c1.ref)))
                  /\ eventCounter' = eventCounter + 1
                  /\ stLast' =
                       [STOp("restoreCheckpoint") EXCEPT
                          !.id = id,
                          !.notes = notifyAllSubscribers(
                                      heap, smState, c2.heap, c2.ref,
                                      subscriptions, 1)]
  /\ UNCHANGED <<now, subscriptions, stConfig, ckptDoc>>
  /\ STOthers

\* StateStore.compactHistory(keepLastN)
STCompactHistory(keepLastN) ==
  /\ Len(history) > keepLastN
  /\ STCommit(heap, smState, stState, snapshots,
              SubSeq(history, Len(history) - keepLastN + 1, Len(history)))
  /\ stLast' = STOp("compactHistory")
  /\ UNCHANGED <<now, eventCounter, subscriptions, stConfig, ckptDoc>>
  /\ STOthers

\* StateStore.clear
STClear ==
  /\ LET n == NextRef(heap)
     IN  STCommit(Put(heap, n, EmptyMap), smState, n, <<>>, <<>>)
  /\ ckptDoc' = EmptyMap
  /\ stLast' = STOp("clear")
  /\ UNCHANGED <<now, eventCounter, subscriptions, stConfig>>
  /\ STOthers

\* the ids of the snapshots of an exported bundle
ImportIds == <<"a", "b", "c", "d">>

\* an event of an exported bundle
ImportedEvent(i) ==
  [id |-> 100 + i, patches |-> <<ReplaceMake>>, type |-> "patches"]

\* the bundles that exportState of a store with the default limits gives, as
\* importState takes them: one with the document only, and one with one
\* event and one snapshot more than the limits of this store
StoreBundles ==
  {[currentState |-> EmptyMap, events |-> 0, snapshots |-> 0],
   [currentState |-> EmptyMap, events |-> MaxHistorySize + 1,
    snapshots |-> MaxSnapshotSize + 1]}

\* the snapshots of a bundle from the k-th on: each is an object of the
\* caller, with the empty document as its state
RECURSIVE ImportSnapshots(_, _, _)
ImportSnapshots(h, count, k) ==
  IF k > count THEN [heap |-> h, snaps |-> <<>>]
  ELSE LET n == NextRef(h)
           rest == ImportSnapshots(Put(h, n, EmptyMap), count, k + 1)
       IN  [heap |-> rest.heap,
            snaps |-> <<[id |-> ImportIds[k], state |-> n, timestamp |-> 0]>>
                        \o rest.snaps]

\* StateStore.importState(stateData): the document is a copy of that of the
\* bundle; the history and the snapshots of the bundle, where it has any,
\* take the place of those of the store
STImportState(stateData) ==
  /\ LET n == NextRef(heap)
         h1 == Put(heap, n, stateData.currentState)
         imp == ImportSnapshots(h1, stateData.snapshots, 1)
     IN  STCommit(imp.heap, smState, n,
                  IF stateData.snapshots > 0 THEN imp.snaps ELSE snapshots,
                  IF stateData.events > 0
                  THEN [i \in 1..stateData.events |-> ImportedEvent(i)]
                  ELSE history)
  /\ ckptDoc' = IF stateData.snapshots > 0 THEN EmptyMap ELSE ckptDoc
  /\ stLast' = STOp("importState")
  /\ UNCHANGED <<now, eventCounter, subscriptions, stConfig>>
  /\ STOthers

\* what a reader can be handed: the result of getCurrentState, of
\* getSnapshot, of getHistory, and the newState of the payload of the
\* patchesApplied event
ReaderValues == {"state", "snapshot", "history", "payload"}

\* a reader writes to the value it was handed: it sets the property make of
\* the document it holds (that of the oldest snapshot, for getSnapshot), or
\* the value of the first patch of the first event of the array of getHistory
STReaderWrite(kind) ==
  /\ kind = "snapshot" => Len(snapshots) >= 1
  /\ kind = "history" => Len(history) >= 1
  /\ kind = "payload" => stLast.op = "patchState" /\ ~stLast.threw
  /\ LET c == cloneDeep(heap, stState)
         target == CASE kind = "state" -> c.ref
                     [] kind = "snapshot" -> snapshots[1].state
                     [] OTHER -> stState
         h1 == IF kind = "history" THEN heap
               ELSE [c.heap EXCEPT ![target] = LodashSet(@, "make", Str("Honda"))]
     IN  STCommit(h1, smState, stState, snapshots,
                  IF kind = "history"
                  THEN [history EXCEPT ![1].patches[1].value = Str("Honda")]
                  ELSE history)
  /\ stLast' = [STOp("readerWrite") EXCEPT !.id = kind]
  /\ UNCHANGED <<now, eventCounter, subscriptions, stConfig, ckptDoc>>
  /\ STOthers

\* number of replays of the event log in a behaviour
MaxReplays == 2

\* history.findIndex(event => event.id === eventId) + 1
EventIndex(hist, eventId) ==
  IF \E i \in 1..Len(hist) : hist[i].id = eventId
  THEN CHOOSE i \in 1..Len(hist) : hist[i].id = eventId
  ELSE 0

\* the loop of replayFromEvent: the patches of the events i..eventIndex of
\* the history are applied to the document in their order
RECURSIVE ReplayEvents(_, _, _, _, _)
ReplayEvents(h, state, hist, i, eventIndex) ==
  IF i > eventIndex THEN [heap |-> h, state |-> state, threw |-> FALSE]
  ELSE LET a == ApplyAll(h, state, hist[i].patches, 1)
       IN  IF a.threw THEN a
           ELSE ReplayEvents(a.heap, a.state, hist, i + 1, eventIndex)

\* StateStore.replayFromEvent(eventId): the document becomes {} and the
\* events of the history up to the event are replayed on it; an unknown id
\* throws. The record of the operation keeps the index of the event and the
\* document that the store held before
STReplayFromEvent(eventId) ==
  /\ stLast.replays < MaxReplays
  /\ LET eventIndex == EventIndex(history, eventId)
     IN  IF eventIndex = 0
         THEN /\ stLast' = [STOp("replayFromEvent") EXCEPT
                              !.threw = TRUE, !.before = 0]
              /\ UNCHANGED <<heap, smState, stState, snapshots, history,
                             logged>>
         ELSE \E r \in {ReplayEvents(Put(heap, NextRef(heap), EmptyMap),
                                     NextRef(heap), history, 1, eventIndex)} :
                /\ STCommit(r.heap, smState, r.state, snapshots, history)
                /\ stLast' = [STOp("replayFromEvent") EXCEPT
                                !.threw = r.threw,
                                !.before = eventIndex,
                                !.replays = @ + 1,
                                !.read = ValueOf(heap, stState)]
  /\ UNCHANGED <<now, eventCounter, subscriptions, stConfig, ckptDoc>>
  /\ STOthers

\* a millisecond passes
STTick ==
  /\ now < STHorizon
  /\ now' = now + 1
  /\ UNCHANGED stVars
  /\ STOthers

STNext ==
  \/ \E patches \in PatchLists : STPatchState(patches)
  \/ \E state \in RootObjects : STSetState(state)
  \/ \E id \in SnapshotIds : STCreateCheckpoint(id)
  \/ \E id \in SnapshotIds : STRestoreCheckpoint(id)
  \/ \E keepLastN \in 0..1 : STCompactHistory(keepLastN)
  \/ STClear
  \/ STTick

\* a host that works on the store: it patches, makes checkpoints, imports
\* bundles and writes to the values that the store hands out
SXNext ==
  \/ \E patches \in {<<ReplaceMake>>, <<ReplaceHonda>>} : STPatchState(patches)
  \/ \E id \in SnapshotIds : STCreateCheckpoint(id)
  \/ \E stateData \in StoreBundles : STImportState(stateData)
  \/ \E kind \in ReaderValues : STReaderWrite(kind)

\* a patch of a second property of the document
ReplaceYear == [op |-> "replace", path |-> "$.makeYear", value |-> Str("2020")]

\* a host that patches, makes and restores checkpoints, and replays the
\* event log of the store
SRNext ==
  \/ \E patches \in PatchLists \cup {<<ReplaceYear>>} : STPatchState(patches)
  \/ \E id \in SnapshotIds : STCreateCheckpoint(id)
  \/ \E id \in SnapshotIds : STRestoreCheckpoint(id)
  \/ \E eventId \in 1..MaxEvents : STReplayFromEvent(eventId)

-----------------------------------------------------------------------------
(* ClientToolExecutor *)

MaxClientCalls == 3    \* executions of client tools in a behaviour

\* the client tools: tool.client.fn and the fn of tool.client.rollback, ""
\* where the tool declares no rollback
ClientTools ==
  {[fn |-> "openModal", rollback |-> "closeModal"],
   [fn |-> "setValue", rollback |-> "restoreValue"],
   [fn |-> "focusElement", rollback |-> ""]}

\* no rollback() call is under way
NoRollback ==
  [pc |-> "idle", atStart |-> <<>>, invoked |-> <<>>, calls |-> 0]

\* the client executor leaves the other subsystems alone
CLOthers ==
  UNCHANGED <<now, cbVars, ddVars, rtVars, sv, rlVars, cmVars, orVars, stVars, plVars, auVars>>

CLIdle ==
  /\ rollbackStack = <<>>
  /\ clRun = NoRollback
  /\ hasProcess = TRUE

\* ClientToolExecutor.executeInternal: the client function runs; where it
\* succeeds and the tool declares a rollback, the rollback is pushed
CLExecute(tool, ok) ==
  /\ clRun.calls < MaxClientCalls
  /\ rollbackStack' =
       IF ok /\ tool.rollback # ""
       THEN Append(rollbackStack,
                   [fn |-> tool.rollback, n |-> clRun.calls + 1])
       ELSE rollbackStack
  /\ clRun' = IF clRun.pc \in {"done", "raised"}
              THEN [NoRollback EXCEPT !.calls = clRun.calls + 1]
              ELSE [clRun EXCEPT !.calls = @ + 1]
  /\ UNCHANGED hasProcess
  /\ CLOthers

\* while (this.rollbackStack.length > 0)
RollbackLoop(stack) == IF Len(stack) > 0 THEN "running" ELSE "done"

\* ClientToolExecutor.rollback is called
CLRollback ==
  /\ clRun.pc \in {"idle", "done", "raised"}
  /\ clRun' = [clRun EXCEPT !.pc = RollbackLoop(rollbackStack),
                            !.atStart = rollbackStack,
                            !.invoked = <<>>]
  /\ UNCHANGED <<rollbackStack, hasProcess>>
  /\ CLOthers

\* rollbackStack.pop(), and the call of the client function of the popped
\* action, which rollback awaits
CLRollbackPop ==
  /\ clRun.pc = "running"
  /\ rollbackStack' = SubSeq(rollbackStack, 1, Len(rollbackStack) - 1)
  /\ clRun' = [clRun EXCEPT
                 !.pc = "calling",
                 !.invoked = Append(@, rollbackStack[Len(rollbackStack)])]
  /\ UNCHANGED hasProcess
  /\ CLOthers

\* the catch block of rollback reads process.env.NODE_ENV: where the host
\* defines no process the read throws a ReferenceError out of rollback
RollbackCatch(ok) ==
  IF ok \/ hasProcess THEN RollbackLoop(rollbackStack) ELSE "raised"

\* the client function of the popped action returns or throws
CLRollbackReturn(ok) ==
  /\ clRun.pc = "calling"
  /\ clRun' = [clRun EXCEPT !.pc = RollbackCatch(ok)]
  /\ UNCHANGED <<rollbackStack, hasProcess>>
  /\ CLOthers

CLNext ==
  \/ \E tool \in ClientTools, ok \in BOOLEAN : CLExecute(tool, ok)
  \/ CLRollback
  \/ CLRollbackPop
  \/ \E ok \in BOOLEAN : CLRollbackReturn(ok)

-----------------------------------------------------------------------------
(* HaloStatePlugin.browser.ts *)

\* config.maxCheckpoints of the plugins
MaxCheckpoints == 2
\* number of createCheckpoint calls in a behaviour
MaxCheckpointCalls == 3
\* number of milliseconds a behaviour of the plugin may take
PLHorizon == 2

PLFields == {"make", "model", "trim"}

PLCheckpointIds == {"a", "b", "c"}

\* the value null of a form field, and the values that callers set
PLNull == "null"

PLValues == {"Toyota"}

\* the calls of registerDependency: the dependents of a field come after it
\* in the form, so that no field depends on itself
PLDependencies ==
  { [parentField |-> "make", dependentFields |-> <<"model">>],
    [parentField |-> "model", dependentFields |-> <<"trim">>],
    [parentField |-> "make", dependentFields |-> <<>>] }

PLConfigs ==
  [enableEventSourcing : BOOLEAN, enableCheckpoints : {TRUE},
   enableDependencyTracking : BOOLEAN, maxCheckpoints : {MaxCheckpoints}]

\* createInitialState(), and the log after the constructor: with event
\* sourcing the first event of the log holds the state object itself. The
\* model keeps of the state the values of the form fields and the
\* checkpoints; session, context and ui are copied by getState and put back
\* by restoreCheckpoint with the same statements as the form. cyclic: the
\* log holds a checkpoint whose state holds the log
createInitialState ==
  [form |-> EmptyMap, checkpoints |-> <<>>, cyclic |-> FALSE]

\* JSON.stringify(this.state) of updateMetadata throws: the log holds the
\* state itself since the constructor, or a checkpoint that holds the log
updateMetadataThrows(state, config) ==
  config.enableEventSourcing \/ state.cyclic

\* getState() throws: its replacer cuts the values that hold a state object
\* but not a checkpoint that holds the log
getStateThrows(state) == state.cyclic

\* getState(): the deep copy of the state that JSON makes
getState(state) == [form |-> state.form, checkpoints |-> state.checkpoints]

\* processDependencies(changedField, newValue): the form after it, the value
\* of every dependent of the field that the form holds being null
processDependencies(form, graph, changedField) ==
  IF changedField \notin DOMAIN graph THEN form
  ELSE [f \in DOMAIN form |->
          IF \E i \in 1..Len(graph[changedField]) : graph[changedField][i] = f
          THEN PLNull ELSE form[f]]

\* the index of the checkpoint id in the checkpoints, 0 if there is none
CheckpointIndex(cps, id) ==
  IF \E i \in 1..Len(cps) : cps[i].id = id
  THEN CHOOSE i \in 1..Len(cps) : cps[i].id = id
  ELSE 0

\* this.state._events.checkpoints[id] = checkpoint: a key that exists keeps
\* its place in the order of the keys
PutCheckpoint(cps, checkpoint) ==
  IF CheckpointIndex(cps, checkpoint.id) = 0 THEN Append(cps, checkpoint)
  ELSE [cps EXCEPT ![CheckpointIndex(cps, checkpoint.id)] = checkpoint]

\* checkpointIds.sort(by timestamp)[0]: the sort is stable, the first of the
\* keys with the least timestamp
OldestCheckpoint(cps) ==
  CHOOSE i \in 1..Len(cps) :
    /\ \A j \in 1..Len(cps) : cps[i].timestamp <= cps[j].timestamp
    /\ \A j \in 1..(i - 1) : cps[j].timestamp > cps[i].timestamp

NoPLOp == [op |-> "none", field |-> "", id |-> "", ret |-> "", threw |-> FALSE]

\* the plugin leaves the other subsystems alone
PLOthers ==
  UNCHANGED <<cbVars, ddVars, rtVars, sv, rlVars, cmVars, orVars, stVars,
              clVars, auVars>>

\* the plugin after construction but for its configuration
PLStart ==
  /\ plState = createInitialState
  /\ dependencyGraph = EmptyMap
  /\ plLast = NoPLOp
  /\ plKept = EmptyMap
  /\ plCreated = 0

PLIdle ==
  /\ PLStart
  /\ plConfig = [enableEventSourcing |-> TRUE, enableCheckpoints |-> TRUE,
                 enableDependencyTracking |-> TRUE,
                 maxCheckpoints |-> MaxCheckpoints]

\* updateFormField(fieldName, value) with the default options: the field is
\* made if the form does not hold it, its value is set, its dependents are
\* processed, and updateMetadata throws if the state cannot be stringified
PLUpdateFormField(fieldName, value) ==
  /\ LET form1 == [f \in DOMAIN plState.form \cup {fieldName} |->
                     IF f = fieldName THEN value ELSE plState.form[f]]
         form2 == IF plConfig.enableDependencyTracking
                  THEN processDependencies(form1, dependencyGraph, fieldName)
                  ELSE form1
     IN  plState' = [plState EXCEPT !.form = form2]
  /\ plLast' = [NoPLOp EXCEPT !.op = "updateFormField", !.field = fieldName,
                              !.threw = updateMetadataThrows(plState, plConfig)]
  /\ UNCHANGED <<now, dependencyGraph, plConfig, plKept, plCreated>>
  /\ PLOthers

\* registerDependency(parentField, dependentFields)
PLRegisterDependency(d) ==
  /\ dependencyGraph' =
       [k \in DOMAIN dependencyGraph \cup {d.parentField} |->
          IF k = d.parentField THEN d.dependentFields ELSE dependencyGraph[k]]
  /\ plLast' = [NoPLOp EXCEPT !.op = "registerDependency",
                              !.field = d.parentField]
  /\ UNCHANGED <<now, plState, plConfig, plKept, plCreated>>
  /\ PLOthers

\* createCheckpoint(id): the copy of the state is stored under the id, then
\* the oldest checkpoint is deleted if there are more than maxCheckpoints
PLCreateCheckpoint(id) ==
  /\ plCreated < MaxCheckpointCalls
  /\ plConfig.enableCheckpoints
  /\ plCreated' = plCreated + 1
  /\ IF getStateThrows(plState)
     THEN /\ plLast' = [NoPLOp EXCEPT !.op = "createCheckpoint", !.id = id,
                                      !.threw = TRUE]
          /\ UNCHANGED <<plState, plKept>>
     ELSE LET checkpoint == [id |-> id, timestamp |-> now,
                             state |-> getState(plState)]
              cps == PutCheckpoint(plState.checkpoints, checkpoint)
              over == Len(cps) > plConfig.maxCheckpoints
              oldestId == cps[OldestCheckpoint(cps)].id
              left == IF over THEN RemoveAt(cps, OldestCheckpoint(cps))
                      ELSE cps
          IN  /\ plState' = [plState EXCEPT !.checkpoints = left]
              /\ plKept' =
                   [k \in (DOMAIN plKept \cup {id})
                            \ (IF over THEN {oldestId} ELSE {}) |->
                      IF k = id THEN plState.form ELSE plKept[k]]
              /\ plLast' = [NoPLOp EXCEPT !.op = "createCheckpoint",
                                          !.id = id]
  /\ UNCHANGED <<now, dependencyGraph, plConfig>>
  /\ PLOthers

\* restoreCheckpoint(id): false if the state holds no checkpoint of the id;
\* else the properties of the state of the checkpoint become those of the
\* state, _events with its checkpoints among them, and the event that is
\* logged holds the checkpoint
PLRestoreCheckpoint(id) ==
  /\ LET i == CheckpointIndex(plState.checkpoints, id)
     IN  IF ~plConfig.enableCheckpoints \/ i = 0
         THEN /\ plLast' = [NoPLOp EXCEPT !.op = "restoreCheckpoint",
                                          !.id = id, !.ret = "false"]
              /\ UNCHANGED plState
         ELSE IF getStateThrows(plState)
         THEN /\ plLast' = [NoPLOp EXCEPT !.op = "restoreCheckpoint",
                                          !.id = id, !.threw = TRUE]
              /\ UNCHANGED plState
         ELSE /\ plState' =
                   [form |-> plState.checkpoints[i].state.form,
                    checkpoints |-> plState.checkpoints[i].state.checkpoints,
                    cyclic |-> plConfig.enableEventSourcing]
              /\ plLast' = [NoPLOp EXCEPT !.op = "restoreCheckpoint",
                                          !.id = id, !.ret = "true"]
  /\ UNCHANGED <<now, dependencyGraph, plConfig, plKept, plCreated>>
  /\ PLOthers

\* a millisecond passes
PLTick ==
  /\ now < PLHorizon
  /\ now' = now + 1
  /\ UNCHANGED plVars
  /\ PLOthers

\* a host that fills the form and registers the dependencies of its fields
PDNext ==
  \/ \E fieldName \in PLFields, value \in PLValues :
       PLUpdateFormField(fieldName, value)
  \/ \E d \in PLDependencies : PLRegisterDependency(d)

\* a host that fills a field of the form and makes and restores checkpoints
PLNext ==
  \/ \E value \in PLValues : PLUpdateFormField("make", value)
  \/ \E id \in PLCheckpointIds : PLCreateCheckpoint(id)
  \/ \E id \in PLCheckpointIds : PLRestoreCheckpoint(id)
  \/ PLTick

-----------------------------------------------------------------------------
(* HTTPClient.ts: AuthManager *)

\* cap on the token refreshes that one getAuthConfig call performs
MaxRefreshes == 3
\* number of clock steps a behaviour of the auth manager may take
AUHorizon == 2

Connections == {"c1", "c2"}

\* the step of the clock
AUTickMs == 60 * 1000

\* a token that expires within five minutes is refreshed
bufferTime == 5 * 60 * 1000

\* expires_in of the token endpoint, in seconds; 0 where it is absent
ExpiresIn == {0, 60, 3600}

\* an oauth2 AuthConfig, by the fields that getAuthConfig reads; expiresAt is
\* 0 where the config has none
OAuth2Config(refreshToken, expiresAt) ==
  [type |-> "oauth2", refreshable |-> TRUE, refreshToken |-> refreshToken,
   expiresAt |-> expiresAt]

\* needsRefresh(config)
needsRefresh(config, t) ==
  IF ~config.refreshable \/ config.type # "oauth2" THEN FALSE
  ELSE IF config.expiresAt = 0 THEN FALSE
  ELSE t + bufferTime >= config.expiresAt

\* the expiresAt that refreshToken stores with the refreshed token
ExpiresAt(expiresIn, t) == IF expiresIn # 0 THEN t + expiresIn * 1000 ELSE 0

IdleAuth == [pc |-> "idle", refreshes |-> 0]

\* getAuthConfig(connectionId) up to its first await on the network: the
\* config is returned, or refreshAuthConfig calls refreshToken, whose
\* performTokenRefresh fetches the token endpoint if the config has a
\* refresh token and fails at once if it has none
getAuthConfig(config, x, t) ==
  IF needsRefresh(config, t) /\ config.refreshToken
  THEN [x EXCEPT !.pc = "fetching", !.refreshes = @ + 1]
  ELSE [x EXCEPT !.pc = "done"]

\* the auth manager leaves the other subsystems alone
AUOthers ==
  UNCHANGED <<cbVars, ddVars, rtVars, sv, rlVars, cmVars, orVars, stVars,
              clVars, plVars>>

AUIdle ==
  /\ authConfigs = [id \in Connections |-> OAuth2Config(TRUE, 0)]
  /\ au = [id \in Connections |-> IdleAuth]

\* setAuthConfig(config) by the host, with the expiry of the token it holds
AUSetAuthConfig(id, refreshToken, expiresIn) ==
  /\ au[id].pc = "idle"
  /\ authConfigs' = [authConfigs EXCEPT
                       ![id] = OAuth2Config(refreshToken,
                                            ExpiresAt(expiresIn, now))]
  /\ UNCHANGED <<now, au>>
  /\ AUOthers

\* getAuthConfig(connectionId) is called
AUGetAuthConfig(id) ==
  /\ au[id].pc = "idle"
  /\ au' = [au EXCEPT ![id] = getAuthConfig(authConfigs[id], IdleAuth, now)]
  /\ UNCHANGED <<now, authConfigs>>
  /\ AUOthers

\* the token endpoint answers with a token: refreshToken stores it with its
\* expiry, and refreshAuthConfig calls getAuthConfig for the updated config
AUTokenResponse(id, expiresIn) ==
  /\ au[id].pc = "fetching"
  /\ LET updatedConfig ==
           [authConfigs[id] EXCEPT !.expiresAt = ExpiresAt(expiresIn, now)]
     IN  /\ needsRefresh(updatedConfig, now) => au[id].refreshes < MaxRefreshes
         /\ authConfigs' = [authConfigs EXCEPT ![id] = updatedConfig]
         /\ au' = [au EXCEPT ![id] = getAuthConfig(updatedConfig, au[id], now)]
  /\ UNCHANGED now
  /\ AUOthers

\* the token endpoint does not answer with a token: refreshAuthConfig
\* returns the config it was given
AUTokenFailure(id) ==
  /\ au[id].pc = "fetching"
  /\ au' = [au EXCEPT ![id].pc = "done"]
  /\ UNCHANGED <<now, authConfigs>>
  /\ AUOthers

\* the caller has its config; the count of the refreshes of the call stays
\* until the next call
AUDone(id) ==
  /\ au[id].pc = "done"
  /\ au' = [au EXCEPT ![id].pc = "idle"]
  /\ UNCHANGED <<now, authConfigs>>
  /\ AUOthers

\* time passes
AUTick ==
  /\ now < AUHorizon * AUTickMs
  /\ now' = now + AUTickMs
  /\ UNCHANGED auVars
  /\ AUOthers

AUNext ==
  \/ \E id \in Connections, refreshToken \in BOOLEAN, expiresIn \in ExpiresIn :
       AUSetAuthConfig(id, refreshToken, expiresIn)
  \/ \E id \in Connections : AUGetAuthConfig(id)
  \/ \E id \in Connections, expiresIn \in ExpiresIn :
       AUTokenResponse(id, expiresIn)
  \/ \E id \in Connections : AUTokenFailure(id)
  \/ \E id \in Connections : AUDone(id)
  \/ AUTick

-----------------------------------------------------------------------------
(* Specifications *)

InitCB == (now = StartTime) /\ CBIdle /\ DDInit /\ RTInit /\ SVInit /\ RLIdle /\ CMIdle /\ ORIdle /\ STIdle /\ CLIdle /\ PLIdle /\ AUIdle

InitDD == (now = 0) /\ CBIdle /\ DDInit /\ RTInit /\ SVInit /\ RLIdle /\ CMIdle /\ ORIdle /\ STIdle /\ CLIdle /\ PLIdle /\ AUIdle

InitRT == (now = 0) /\ CBIdle /\ DDInit /\ RTInit /\ SVInit /\ RLIdle /\ CMIdle /\ ORIdle /\ STIdle /\ CLIdle /\ PLIdle /\ AUIdle

InitSV == (now = SVStartTime) /\ CBIdle /\ DDInit /\ RTInit /\ SVInit /\ RLIdle /\ CMIdle /\ ORIdle /\ STIdle /\ CLIdle /\ PLIdle /\ AUIdle

\* the rate limiter, with a policy chosen for each key
InitRL ==
  /\ now = 0
  /\ CBIdle /\ DDInit /\ RTInit /\ SVInit /\ CMIdle /\ ORIdle /\ STIdle /\ CLIdle /\ PLIdle /\ AUIdle
  /\ buckets = EmptyMap
  /\ rlConfig \in [RLKeys -> RLConfigs]
  /\ rlLast = NoRLOp
  /\ rlHist = [k \in RLKeys |-> NoWindow]
  /\ nextCleanup = RLCleanupIntervalMs
  /\ rlTicks = 0

\* the cache manager, in a browser or not
InitCM ==
  /\ now = 0
  /\ CBIdle /\ DDInit /\ RTInit /\ SVInit /\ RLIdle /\ ORIdle /\ STIdle /\ CLIdle /\ PLIdle /\ AUIdle
  /\ memoryCache = EmptyMap
  /\ storage = [tier \in StorageTiers |-> EmptyMap]
  /\ hasWindow \in BOOLEAN
  /\ cmTier \in Tiers
  /\ cmLast = NoCMOp
  /\ cmHist = [tier \in Tiers |-> [k \in CMKeys |-> NoSet]]
  /\ nextCheck = CheckPeriodMs
  /\ cmTicks = 0

InitOR == (now = 0) /\ CBIdle /\ DDInit /\ RTInit /\ SVInit /\ RLIdle /\ CMIdle /\ ORIdle /\ STIdle /\ CLIdle /\ PLIdle /\ AUIdle

InitST ==
  /\ now = 0
  /\ CBIdle /\ DDInit /\ RTInit /\ SVInit /\ RLIdle /\ CMIdle /\ ORIdle
  /\ CLIdle /\ PLIdle /\ AUIdle
  /\ STStart
  /\ stConfig \in StoreConfigs

InitSX ==
  /\ now = 0
  /\ CBIdle /\ DDInit /\ RTInit /\ SVInit /\ RLIdle /\ CMIdle /\ ORIdle
  /\ STIdle /\ CLIdle /\ PLIdle /\ AUIdle

\* the state layer of a host that replays the event log
InitSR ==
  /\ now = 0
  /\ CBIdle /\ DDInit /\ RTInit /\ SVInit /\ RLIdle /\ CMIdle /\ ORIdle
  /\ CLIdle /\ PLIdle /\ AUIdle
  /\ STStart
  /\ stConfig \in StoreConfigs

\* the client executor, in a host with or without the global process
InitCL ==
  /\ now = 0
  /\ CBIdle /\ DDInit /\ RTInit /\ SVInit /\ RLIdle /\ CMIdle /\ ORIdle
  /\ STIdle /\ PLIdle /\ AUIdle
  /\ rollbackStack = <<>>
  /\ clRun = NoRollback
  /\ hasProcess \in BOOLEAN

SpecCB == InitCB /\ [][CBNext]_vars

SpecDD == InitDD /\ [][DDNext]_vars

SpecRT == InitRT /\ [][RTNext]_vars

SpecSV == InitSV /\ [][SVNext]_vars

SpecRL == InitRL /\ [][RLNext]_vars

SpecCM == InitCM /\ [][CMNext]_vars

SpecOR == InitOR /\ [][ORNext]_vars

\* the state plugin of a browser host, with a configuration
InitPL ==
  /\ now = 0
  /\ CBIdle /\ DDInit /\ RTInit /\ SVInit /\ RLIdle /\ CMIdle /\ ORIdle
  /\ STIdle /\ CLIdle /\ AUIdle
  /\ PLStart
  /\ plConfig \in PLConfigs

SpecPL == InitPL /\ [][PLNext]_vars

\* the state plugin of a host that registers dependencies
InitPD ==
  /\ now = 0
  /\ CBIdle /\ DDInit /\ RTInit /\ SVInit /\ RLIdle /\ CMIdle /\ ORIdle
  /\ STIdle /\ CLIdle /\ AUIdle
  /\ PLStart
  /\ plConfig \in PLConfigs

SpecPD == InitPD /\ [][PDNext]_vars

InitAU == (now = 0) /\ CBIdle /\ DDInit /\ RTInit /\ SVInit /\ RLIdle /\ CMIdle /\ ORIdle /\ STIdle /\ CLIdle /\ PLIdle /\ AUIdle

SpecAU == InitAU /\ [][AUNext]_vars

SpecST == InitST /\ [][STNext]_vars

SpecSR == InitSR /\ [][SRNext]_vars

SpecSX == InitSX /\ [][SXNext]_vars

SpecCL == InitCL /\ [][CLNext]_vars

-----------------------------------------------------------------------------
(* Properties of the circuit breaker *)

\* a call for k made now would be rejected
WouldReject(k) ==
  /\ StateOf(circuits, k) = "open"
  /\ now - StatsOf(circuits, k).lastFailureTime < ResetTimeoutMs

RunningTrials(k) ==
  {c \in Callers : call[c].pc = "running" /\ call[c].key = k
                   /\ call[c].admit = "half-open"}

\* C1: a closed breaker opens on a failure exactly when the failures recorded
\* for its key since the last recorded success reach failureThreshold
C1_OpensOnConsecutiveFailures ==
  (last.out = "failed" /\ last.prev = "closed")
    => (StateOf(circuits, last.key) = "open"
          <=> sinceSuccess[last.key] = FailureThreshold)

\* C2: a call made while the breaker is open and resetTimeoutMs has not
\* elapsed since the last failure is rejected with the non-retryable
\* CircuitBreakerError, and its operation is not invoked
C2_OpenRejects ==
  /\ (last.out \in {"rejected", "admitted"} /\ last.prev = "open")
       => /\ last.out = "rejected"
          /\ last.err.code = "CIRCUIT_BREAKER_OPEN"
          /\ last.err.toolId = last.key
          /\ last.err.retryable = FALSE
          /\ StateOf(circuits, last.key) = "open"
  /\ \A c \in Callers : call[c].pc = "running" => call[c].admit # "open"

C2_Witness ==
  /\ last.out = "rejected"
  /\ last.prev = "open"
  /\ WouldReject(last.key)

\* C3: in a half-open phase one trial call is let through, and no other call
\* for the key is let through before the trial call has settled
C3_OneTrialCall ==
  \A k \in CircuitIds : Cardinality(RunningTrials(k)) <= 1

\* C4: the first isOpen check made once resetTimeoutMs has elapsed moves an
\* open breaker to half-open and lets the call through; a success recorded in
\* half-open closes the breaker and resets its failure counter
C4_HalfOpenThenClosed ==
  /\ (last.out \in {"rejected", "admitted", "isOpen", "notOpen"}
        /\ last.prev = "elapsed")
       => /\ StateOf(circuits, last.key) = "half-open"
          /\ last.out \in {"admitted", "notOpen"}
  /\ (last.out = "ok" /\ last.prev = "half-open")
       => /\ StateOf(circuits, last.key) = "closed"
          /\ StatsOf(circuits, last.key).failures = 0

C4_Witness ==
  /\ last.out = "ok"
  /\ last.prev = "half-open"
  /\ StateOf(circuits, last.key) = "closed"
  /\ sinceSuccess[last.key] = 0

\* C5 as stated: once the trial call has failed, calls are rejected until
\* resetTimeoutMs has elapsed since that failure
C5_RejectsUntilTimeout ==
  \A k \in CircuitIds : trialLeft[k] > 0 => WouldReject(k)

\* C5 as amended: a failure of the trial call in half-open opens the breaker
\* and restarts the timer at that failure; for as long as the breaker then
\* stays open it rejects calls until resetTimeoutMs has elapsed since it
C5_TrialFailureReopens ==
  /\ (last.out = "failed" /\ last.prev = "half-open")
       => /\ StateOf(circuits, last.key) = "open"
          /\ StatsOf(circuits, last.key).lastFailureTime = now
          /\ WouldReject(last.key)
  /\ \A k \in CircuitIds :
       (trialLeft[k] > 0 /\ StateOf(circuits, k) = "open") => WouldReject(k)

C5_Witness ==
  /\ last.out = "failed"
  /\ last.prev = "half-open"
  /\ trialLeft[last.key] = ResetTimeoutMs

-----------------------------------------------------------------------------
(* Properties of the request deduplicator *)

InFlight(c) == dcall[c].pc \in {"own", "queued"}

RunningOps(k) == {c \in DCalls : dop[c].state = "running" /\ dop[c].key = k}

\* C6: execute calls on one key that are in flight together are served by one
\* invocation of the operation, and all of them get the identical result
\* (cancelRequest and the cleanup sweep aside)
C6_OneInvocationSameResult ==
  ncancel = 0 =>
    \A c1, c2 \in DCalls :
      dcall[c1].key = dcall[c2].key =>
        /\ (InFlight(c1) /\ InFlight(c2)) => dcall[c1].op = dcall[c2].op
        /\ (dcall[c1].pc = "done" /\ dcall[c2].pc = "done"
              /\ dcall[c1].op = dcall[c2].op)
             => dcall[c1].res = dcall[c2].res

\* C7: at every instant at most one underlying operation per key is in flight
C7_OneOperationPerKey ==
  \A k \in Keys : Cardinality(RunningOps(k)) <= 1

\* C8: a caller queued on an in-flight key is settled when the original
\* operation settles, with that operation's value or error; no queued caller
\* stays pending once the original has settled
C8_WaitersGetOriginalOutcome ==
  \A c \in DCalls :
    /\ dcall[c].pc = "queued" => dop[dcall[c].op].state = "running"
    /\ (dcall[c].pc = "done" /\ dcall[c].via = "queued"
          /\ dcall[c].res.kind # "cancelled")
         => /\ dop[dcall[c].op].state = "settled"
            /\ dcall[c].res = dop[dcall[c].op].out

\* the promise of the operation invoked by call c, which was registered,
\* settles in this step, while the entry pending under its key is the entry
\* of a later operation
StaleCompletion(c) ==
  /\ dop[c].state = "running"
  /\ dop[c].registered
  /\ dop'[c].state = "settled"
  /\ dop[c].key \in DOMAIN pendingRequests
  /\ pendingRequests[dop[c].key].op # c

\* C35: the completion of an operation whose pending entry was cancelled or
\* force-expired neither removes a newer pending entry registered under the
\* same key nor settles the waiters of that entry
C35_StaleCompletionLeavesNewer ==
  [][\A c \in DCalls :
       StaleCompletion(c) =>
         /\ dop[c].key \in DOMAIN pendingRequests'
         /\ pendingRequests'[dop[c].key] = pendingRequests[dop[c].key]
         /\ \A i \in 1..Len(pendingRequests[dop[c].key].resolvers) :
              dcall'[pendingRequests[dop[c].key].resolvers[i]]
                = dcall[pendingRequests[dop[c].key].resolvers[i]]]_vars

-----------------------------------------------------------------------------
(* Properties of the retry manager *)

\* C10: after a failed attempt the operation is attempted again only if
\* shouldRetry(error) holds and fewer than max retries have been made;
\* otherwise the last error is raised; the operation is invoked at most
\* max + 1 times
C10_BoundedRetry ==
  /\ rt.calls <= rt.config.max + 1
  /\ rt.pc = "sleeping"
       => /\ rt.hasShouldRetry => shouldRetry(rt.lastError, rt.config.retryOn)
          /\ rt.attempt - 1 < rt.config.max
          /\ rt.calls = rt.attempt
  /\ rt.pc = "thrown"
       => /\ rt.thrown = rt.lastError
          /\ rt.thrown \in Failures
          /\ \/ rt.hasShouldRetry /\ ~shouldRetry(rt.lastError, rt.config.retryOn)
             \/ rt.calls = rt.config.max + 1

C10_Witness ==
  /\ rt.pc = "thrown"
  /\ rt.hasShouldRetry
  /\ rt.config.max = MaxRetries
  /\ rt.calls = 2
  /\ ~shouldRetry(rt.thrown, rt.config.retryOn)

\* C12: the delay slept before retry attempt n is backoffMs for the fixed
\* strategy, backoffMs*n for the linear one and backoffMs*2^(n-1) for the
\* exponential one, whatever backoffMs is configured
C12_DelayOfStrategy ==
  (rt.pc = "sleeping" /\ rt.config.backoffMs # Undefined)
    => rt.delay = (IF rt.config.strategy = "fixed" THEN rt.config.backoffMs
                   ELSE IF rt.config.strategy = "linear"
                   THEN rt.config.backoffMs * rt.attempt
                   ELSE rt.config.backoffMs * (2 ^ (rt.attempt - 1)))

-----------------------------------------------------------------------------
(* Properties of the server tool executor *)

\* C9: with deduplication enabled, a run that starts while the network call
\* of another run with the same deduplication key is in flight joins that
\* call and issues no network call of its own
C9_JoinsInFlightCall ==
  \A e \in Execs :
    (ToolOf(sv[e].tool).deduplication.enabled /\ sv[e].sawInFlight)
      => sv[e].calls = 0

\* C11: the result of a run under a retry policy reports as its retry count
\* the number of retries that were performed for that run
C11_RetryCountReported ==
  \A e \in Execs :
    (sv[e].pc = "done" /\ ToolOf(sv[e].tool).retry # NoRetry
       /\ sv[e].out \in {"ok", "failed"})
      => sv[e].retryCount = sv[e].attempt

-----------------------------------------------------------------------------
(* Properties of the rate limiter *)

\* C13 as stated: within one window exactly maxRequests calls of a key are
\* admitted and every further call is rejected; calls are admitted again once
\* the window has rotated
C13_QuotaPerWindow ==
  rlLast.op = "check"
    => /\ rlHist[rlLast.key].admitted <= MaxRequests
       /\ rlLast.allowed \/ rlHist[rlLast.key].admitted = MaxRequests

\* C13 as amended: the statement holds for the fixed strategy. Under the
\* sliding strategy the count of used requests never exceeds maxRequests, a
\* call that finds the quota used and no decay due (less than
\* windowMs/maxRequests since the last refill) is rejected, and a call made
\* windowMs or more after the last refill is admitted
C13_QuotaFixedDecaySliding ==
  rlLast.op = "check"
    => LET k == rlLast.key
           config == rlConfig[k]
       IN  /\ config.strategy = "fixed"
                => /\ rlHist[k].admitted <= config.maxRequests
                   /\ rlLast.allowed \/ rlHist[k].admitted = config.maxRequests
           /\ config.strategy = "sliding"
                => /\ buckets[k].requestCount <= config.maxRequests
                   /\ (rlLast.used = config.maxRequests
                         /\ rlLast.elapsed * config.maxRequests < config.windowMs)
                        => ~rlLast.allowed
                   /\ rlLast.elapsed >= config.windowMs => rlLast.allowed
                   /\ rlLast.used < config.maxRequests => rlLast.allowed

C13_Witness ==
  /\ rlLast.op = "check"
  /\ rlConfig[rlLast.key].strategy = "fixed"
  /\ rlLast.used = MaxRequests
  /\ rlLast.allowed

\* C14: a bucket is evicted only when its key has not been checked for five
\* minutes
C14_EvictedOnlyWhenIdle ==
  rlLast.op = "cleanup"
    => \A k \in rlLast.removed :
         rlHist[k].checked = -1 \/ now - rlHist[k].checked >= RLMaxAge

\* C37: under the fixed strategy the cost admitted for a key within one
\* window never exceeds the quota of the policy, whatever the cleanup of the
\* idle buckets has done in between
C37_FixedQuotaAcrossCleanup ==
  \A k \in RLKeys :
    rlConfig[k].strategy = "fixed"
      => rlHist[k].total <= rlConfig[k].maxRequests

-----------------------------------------------------------------------------
(* Properties of the cache manager *)

\* C15: in every tier, a get made right after an entry was set returns the
\* entry, and a get made more than ttlSeconds after the set is a miss
C15_PresentThenExpired ==
  cmLast.op = "get"
    => LET h == cmHist[cmLast.tier][cmLast.key]
       IN  h.at # -1
             => /\ now = h.at => cmLast.ret = h.value
                /\ now > h.at + h.ttl * 1000 => cmLast.ret = NullValue

-----------------------------------------------------------------------------
(* Properties of the orchestrator *)

\* C16: unless continueOnError is set, no action of a sequence is executed
\* after the first action that failed
C16_StopsAtFirstFailure ==
  ~orSeq.continueOnError
    => \A j \in 1..Len(orSeq.results) :
         ~orSeq.results[j].success => j = Len(orSeq.results)

\* the steps of the sequence that assigned a value to a path of the state
\* and were followed by another step
AssignSteps ==
  {j \in 1..Len(orSeq.seen) - 1 :
     /\ orSeq.ids[j] \in ORRegistered
     /\ ORTool(orSeq.ids[j]).type = "system"
     /\ orSeq.results[j].success}

\* C17: the state write of action N of a sequence is visible to the state
\* reads of action N+1
C17_WritesVisibleToNext ==
  \A j \in AssignSteps :
    getValue(orSeq.seen[j + 1], ORTool(orSeq.ids[j]).path)
      = ORTool(orSeq.ids[j]).value

\* C18: executeParallel returns one result for every input id, at the index
\* of that id, whatever the order of completion
C18_ResultsInInputOrder ==
  orPar.pc = "returned"
    => /\ DOMAIN orPar.results = 1..Len(orPar.ids)
       /\ \A k \in 1..Len(orPar.ids) :
            /\ orPar.results[k] # NoResult
            /\ orPar.results[k].tool = orPar.ids[k]

C18_Witness ==
  /\ orPar.pc = "returned"
  /\ \E a, b \in 1..Len(orPar.order) :
       a < b /\ orPar.order[a] > orPar.order[b]

\* C19: an exception thrown while an action of a sequence or of a parallel
\* run is executed becomes the failed result of that action and is not
\* raised to the caller, and the other actions of the same parallel batch
\* run to their own results
C19_ExceptionBecomesFailedResult ==
  /\ orSeq.pc # "raised"
  /\ \A j \in 1..Len(orSeq.results) :
       orSeq.ids[j] \notin ORRegistered
         => orSeq.results[j] = errorResult(orSeq.ids[j], "Tool not found")
  /\ orPar.pc # "raised"
  /\ orPar.pc \in {"running", "returned"}
       => \A k \in 1..Len(orPar.ids) :
            /\ (k \in orPar.pending \/ k >= orPar.i + orPar.maxConcurrency)
                 <=> orPar.results[k] = NoResult
            /\ (orPar.results[k] # NoResult /\ orPar.ids[k] \notin ORRegistered)
                 => orPar.results[k] = errorResult(orPar.ids[k], "Tool not found")
            /\ (orPar.results[k] # NoResult /\ orPar.ids[k] \in ORRegistered)
                 => orPar.results[k].tool = orPar.ids[k]

C19_Witness ==
  /\ orPar.pc = "returned"
  /\ \E k, m \in 1..Len(orPar.ids) :
       /\ k < orPar.maxConcurrency + 1 /\ m < orPar.maxConcurrency + 1
       /\ orPar.results[k] = errorResult(orPar.ids[k], "Tool not found")
       /\ orPar.results[m].success
       /\ orPar.order[1] = k

-----------------------------------------------------------------------------
(* Properties of the state layer *)

\* the last operation applied a single replace patch
ReplacePatched ==
  /\ stLast.op = "patchState" /\ ~stLast.threw
  /\ Len(stLast.patches) = 1 /\ stLast.patches[1].op = "replace"

\* C20: after a single replace patch at a path a read of that path returns
\* the patched value, and the event log is exactly one event longer than
\* it was before the call
C20_ReadPatchedLogOneLonger ==
  ReplacePatched
    => /\ stLast.read = stLast.patches[1].value
       /\ Len(history) = stLast.before + 1

\* C20, amended: the read returns the patched value and the event of the call
\* is the last of the log; the log is one event longer where it held fewer
\* than maxHistorySize events, and keeps its length, the oldest event being
\* evicted, where it held maxHistorySize events
C20_ReadPatchedLogBounded ==
  ReplacePatched
    => /\ stLast.read = stLast.patches[1].value
       /\ Len(history) >= 1
       /\ DeepEvent(heap, history[Len(history)])
            = StateEvent(eventCounter, stLast.patches)
       /\ stLast.before < MaxHistorySize => Len(history) = stLast.before + 1
       /\ stLast.before = MaxHistorySize => Len(history) = MaxHistorySize

C20_Witness ==
  /\ ReplacePatched
  /\ stLast.before = MaxHistorySize
  /\ stLast.read = stLast.patches[1].value

\* a step of the state layer that is the operation op
STStep(op) == now' = now /\ stLast'.op = op

\* the path of a patch names no property of the document of the store
PathAbsent(h, state, path) ==
  path # RootPath /\ convertJSONPathToLodashPath(path) \notin DOMAIN h[state]

\* C21: a replace or remove patch whose path is absent from the document is
\* rejected: the call throws, and neither the document nor the log changes
C21_AbsentPathRejected ==
  [][(/\ STStep("patchState")
      /\ Len(stLast'.patches) = 1
      /\ stLast'.patches[1].op \in {"replace", "remove"}
      /\ PathAbsent(heap, stState, stLast'.patches[1].path))
       => /\ stLast'.threw
          /\ ValueOf(heap', stState') = ValueOf(heap, stState)
          /\ history' = history]_vars

\* the events of a log with the values that their patches stand for
DeepHistory(h, hist) == [i \in 1..Len(hist) |-> DeepEvent(h, hist[i])]

\* C22: a call of patchState either applies all its patches and appends
\* exactly one event, that of its patches, or it fails and leaves the
\* documents of the manager and of the store and the log as they were
C22_AllOrNothing ==
  [][STStep("patchState")
       => \/ /\ ~stLast'.threw
             /\ eventCounter' = eventCounter + 1
             /\ Len(history') >= 1
             /\ DeepEvent(heap', history'[Len(history')])
                  = StateEvent(eventCounter', stLast'.patches)
          \/ /\ stLast'.threw
             /\ eventCounter' = eventCounter
             /\ ValueOf(heap', smState') = ValueOf(heap, smState)
             /\ ValueOf(heap', stState') = ValueOf(heap, stState)
             /\ DeepHistory(heap', history') = DeepHistory(heap, history)]_vars

\* C23: an event of the log is what it was when it was appended: its id and
\* its patches, their values included, never change
C23_EventsNeverChange ==
  \A i \in 1..Len(history) :
    DeepEvent(heap, history[i]) = logged[history[i].id]

\* C24: the log never holds more than maxHistorySize events and the store
\* never holds more than maxSnapshotSize snapshots
C24_HistoryAndSnapshotsBounded ==
  /\ Len(history) <= MaxHistorySize
  /\ Len(snapshots) <= MaxSnapshotSize

\* a checkpoint made by createCheckpoint has just been restored
Restored ==
  /\ stLast.op = "restoreCheckpoint" /\ ~stLast.threw
  /\ stLast.id \in DOMAIN ckptDoc

\* C25: after restoreCheckpoint(a) the state that getState returns is deeply
\* equal to the state that it returned when createCheckpoint(a) was called
C25_RestoreGivesCheckpointedState ==
  Restored => ValueOf(heap, smState) = ckptDoc[stLast.id]

\* the value that a JSONPath names in a document: the root path names the
\* document itself
DocumentAt(h, state, path) ==
  IF path = RootPath THEN ValueOf(h, state)
  ELSE Deep(h, getValueAtPath(h, state, path))

\* the callback of the subscription of a path has been called with a value
Notified(notes, path, value) ==
  \E n \in 1..Len(notes) : notes[n].path = path /\ notes[n].value = value

\* C26: restoreCheckpoint calls every subscriber whose watched path names a
\* value that the restore changes, with the restored value
C26_RestoreNotifiesChangedPaths ==
  [][(STStep("restoreCheckpoint") /\ ~stLast'.threw)
       => \A k \in 1..Len(subscriptions) :
            LET path == subscriptions[k]
                restored == DocumentAt(heap', smState', path)
            IN  DocumentAt(heap, smState, path) # restored
                  => Notified(stLast'.notes, path, restored)]_vars

\* the property names of a path, from the root
Segments(path) ==
  CASE path = "$" -> <<>>
    [] path = "$.make" -> <<"make">>
    [] path = "$.makeYear" -> <<"makeYear">>
    [] OTHER -> <<>>

\* a path is an ancestor of a path, is equal to it or is a descendant of it
Related(p, q) ==
  \/ startsWith(Segments(p), Segments(q))
  \/ startsWith(Segments(q), Segments(p))

\* C27: after patchState a subscriber is notified exactly when the path it
\* watches is an ancestor or a descendant of a patched path, or equal to it
C27_NotifiedIffRelated ==
  (stLast.op = "patchState" /\ ~stLast.threw)
    => \A k \in 1..Len(subscriptions) :
         (\E n \in 1..Len(stLast.notes) :
            stLast.notes[n].path = subscriptions[k])
           <=> \E j \in 1..Len(stLast.patches) :
                 Related(subscriptions[k], stLast.patches[j].path)

\* C28: a notification of a call with one patch hands the subscriber the
\* value that its path has after the call, and as the previous value the
\* value that the path had before the call
C28_NewAndPreviousValue ==
  [][(/\ now' = now
      /\ stLast'.op \in {"patchState", "setState"}
      /\ ~stLast'.threw
      /\ Len(stLast'.patches) = 1)
       => \A n \in 1..Len(stLast'.notes) :
            LET note == stLast'.notes[n]
            IN  /\ note.value
                     = Deep(heap', getValueAtPath(heap', smState', note.path))
                /\ note.previous
                     = Deep(heap, getValueAtPath(heap, smState, note.path))]_vars

\* the snapshots with the documents that they hold
DeepSnapshots(h, snaps) ==
  [i \in 1..Len(snaps) |-> [snaps[i] EXCEPT !.state = ValueOf(h, @)]]

\* C29: a value handed to a reader is a copy: a write to it changes neither
\* the document of the store nor its log nor its snapshots
C29_ReadersGetCopies ==
  [][STStep("readerWrite")
       => /\ ValueOf(heap', stState') = ValueOf(heap, stState)
          /\ DeepHistory(heap', history') = DeepHistory(heap, history)
          /\ DeepSnapshots(heap', snapshots')
               = DeepSnapshots(heap, snapshots)]_vars

\* C36: after a completed setState, patchState or restoreCheckpoint the
\* document of the manager is deeply equal to the document of the store
C36_ManagerEqualsStore ==
  (stLast.op \in {"setState", "patchState", "restoreCheckpoint"}
     /\ ~stLast.threw)
    => ValueOf(heap, smState) = ValueOf(heap, stState)

\* C31: a run whose context's cancellation signal had fired when the executor
\* was asked to run never starts the underlying call, and ends with a
\* Cancelled error
C31_AbortedNeverStarts ==
  \A e \in Execs :
    sv[e].aborted =>
      /\ sv[e].calls = 0
      /\ sv[e].pc \notin {"request", "sleeping"}
      /\ sv[e].pc = "done" => sv[e].err = "CancelledError"

\* C39: the failureThreshold of the tool's circuit-breaker policy governs
\* the breaker of the tool: once failureThreshold executions of the tool have
\* failed in a row, its breaker is not closed
C39_ToolThresholdGoverns ==
  \A tool \in Tools :
    (tool.circuitBreaker.enabled /\ tool.id \in CircuitIds
       /\ sinceSuccess[tool.id] >= tool.circuitBreaker.failureThreshold)
      => StateOf(circuits, tool.id) # "closed"

\* a run of the executor is rejected in this step: its breaker is open
Rejected(e) ==
  /\ sv[e].pc = "idle"
  /\ sv'[e].pc = "done"
  /\ sv'[e].err = CircuitBreakerError(sv'[e].tool).name

\* C34: a call that is rejected because the breaker is open is not counted
\* as a failure: the failure count and the time of the last failure of its
\* circuit are what they were, so that the breaker still reaches half-open
\* resetTimeoutMs after the last failure of an underlying call
C34_RejectionNotCounted ==
  [][\A e \in Execs :
       Rejected(e) =>
         /\ StatsOf(circuits', sv'[e].tool).failures
               = StatsOf(circuits, sv'[e].tool).failures
         /\ StatsOf(circuits', sv'[e].tool).lastFailureTime
               = StatsOf(circuits, sv'[e].tool).lastFailureTime]_vars

\* C38: after applyPatches and restoreSnapshot calls only, replayFromEvent
\* applied to the latest event of the history leaves the document of the
\* store deeply equal to what it was before the replay
C38_ReplayReproducesDocument ==
  (stLast.op = "replayFromEvent" /\ ~stLast.threw
     /\ stLast.replays = 1
     /\ stLast.before = Len(history))
    => ValueOf(heap, stState) = stLast.read

-----------------------------------------------------------------------------
(* Properties of the state plugin *)

\* the fields of the form that depend on a field, on a field of the form
\* that depends on it, and so on, over at most n registrations
RECURSIVE Dependents(_, _, _, _)
Dependents(graph, form, field, n) ==
  IF n = 0 \/ field \notin DOMAIN graph THEN {}
  ELSE LET direct == {graph[field][i] : i \in 1..Len(graph[field])}
                       \cap DOMAIN form
       IN  direct
             \cup UNION {Dependents(graph, form, d, n - 1) : d \in direct}

\* C32: with dependency tracking enabled, after an update of a form field
\* the value of every field that depends on it, directly or through other
\* fields, is null
C32_ClearingCascades ==
  (plLast.op = "updateFormField" /\ plConfig.enableDependencyTracking)
    => \A f \in Dependents(dependencyGraph, plState.form, plLast.field,
                            Cardinality(PLFields)) :
         plState.form[f] = PLNull

\* C33: a checkpoint that was created and that the checkpoint limit has not
\* evicted is restored by every restoreCheckpoint of its id: the call
\* returns true and the form is what it was when the checkpoint was created
C33_RestoreAnyNumberOfTimes ==
  (plLast.op = "restoreCheckpoint" /\ plLast.id \in DOMAIN plKept)
    => /\ plLast.ret = "true"
       /\ plState.form = plKept[plLast.id]

-----------------------------------------------------------------------------
(* Properties of the auth manager *)

\* C40: a getAuthConfig call of an oauth2 connection performs at most one
\* token refresh, whatever the expiry of the refreshed token
C40_AtMostOneRefresh ==
  \A id \in Connections : au[id].refreshes <= 1

-----------------------------------------------------------------------------
(* Properties of the client tool executor *)

\* a sequence in reverse
Reverse(seq) == [i \in 1..Len(seq) |-> seq[Len(seq) + 1 - i]]

\* the elements of a sequence that are elements of another, in their order
RECURSIVE Among(_, _)
Among(seq, other) ==
  IF seq = <<>> THEN <<>>
  ELSE (IF \E k \in 1..Len(other) : other[k] = Head(seq)
        THEN <<Head(seq)>> ELSE <<>>) \o Among(Tail(seq), other)

\* C30: rollback never raises, and when it returns the stack is empty and
\* the inverses that were on the stack when it was called have been invoked
\* in the reverse of the order in which they were pushed
C30_RollbackUnwindsAll ==
  /\ clRun.pc # "raised"
  /\ clRun.pc = "done"
       => /\ rollbackStack = <<>>
          /\ Among(clRun.invoked, clRun.atStart) = Reverse(clRun.atStart)

=============================================================================
